---- MODULE Spec2Model ----
(***************************************************************************)
(* Planting-Mix-Editor: Boundary.py (area boundaries from a floor) and     *)
(* script.py (mix schedule editor).  Lengths are integers in millimetres.  *)
(* The host document is modelled by the elements the scripts read and      *)
(* write: planting instances, curve elements of the Area Plan, Areas, the  *)
(* 'BM Mix Boundary' subcategory, the view's sketch plane.                 *)
(***************************************************************************)
EXTENDS Integers, Sequences, FiniteSets, TLC

\* ------------------------------------------------------------ bounds
MaxRuns == 2

\* ------------------------------------------------------------ tunables
SEARCH_MARGIN_MM == 1500
PLANT_OFFSET_MM == 200
FLOOR_OFFSET_MM == 5
TREE_EXTRA_DIAM_MM == 100
MIN_PLANT_RADIUS_MM == 15
MIN_SEGMENT_MM == 6
SAMPLES_PER_CURVE == 6
TREE_KEYWORD == <<"t", "r", "e", "e">>
MIX_BOUNDARY_STYLE_NAME == "BM Mix Boundary"
DEFAULT_STYLE_NAME == "<Area Boundary>"
NoStyle == "<none>"
NoFloor == "<no floor>"

\* ------------------------------------------------------------ small helpers
Min2(a, b) == IF a < b THEN a ELSE b
Max2(a, b) == IF a > b THEN a ELSE b
Abs(a) == IF a < 0 THEN -a ELSE a
SetMin(S) == CHOOSE v \in S : \A w \in S : v <= w
SetMax(S) == CHOOSE v \in S : \A w \in S : v >= w
Range(s) == {s[i] : i \in 1..Len(s)}

RECURSIVE SeqSum(_)
SeqSum(s) == IF s = <<>> THEN 0 ELSE Head(s) + SeqSum(Tail(s))

RECURSIVE Flatten(_)
Flatten(ss) == IF ss = <<>> THEN <<>> ELSE Head(ss) \o Flatten(Tail(ss))

\* ------------------------------------------------------------ text
Upper == <<"A", "B", "C", "D", "E", "F", "G", "H", "I", "J", "K", "L", "M",
          "N", "O", "P", "Q", "R", "S", "T", "U", "V", "W", "X", "Y", "Z">>
Letters == <<"a", "b", "c", "d", "e", "f", "g", "h", "i", "j", "k", "l", "m",
            "n", "o", "p", "q", "r", "s", "t", "u", "v", "w", "x", "y", "z">>
LowerChar(c) ==
    IF \E i \in 1..Len(Upper) : Upper[i] = c
    THEN Letters[CHOOSE i \in 1..Len(Upper) : Upper[i] = c]
    ELSE c
Lower(s) == [i \in 1..Len(s) |-> LowerChar(s[i])]
Contains(s, k) ==
    \E i \in 1..(Len(s) - Len(k) + 1) : SubSeq(s, i, i + Len(k) - 1) = k

\* is_tree_symbol: 'tree' in lower(type name + " " + family name + " " + header);
\* any exception while reading the names (a missing built-in parameter) gives False.
is_tree_symbol(sym) ==
    IF ~sym.nameOk THEN FALSE
    ELSE LET hdr == IF sym.hasHdr THEN Lower(sym.hdr) ELSE <<>>
             s == Lower(sym.tname) \o <<" ">> \o Lower(sym.fname) \o <<" ">> \o hdr
         IN Contains(s, TREE_KEYWORD)

\* ------------------------------------------------------------ geometry
Pt(x, y) == [x |-> x, y |-> y]
Box(x0, x1, y0, y1) == [x0 |-> x0, x1 |-> x1, y0 |-> y0, y1 |-> y1]
Curve(p0, p1, arc) == [p0 |-> p0, p1 |-> p1, arc |-> arc]

\* A rectangular curve loop of four lines, counter-clockwise or clockwise.
RectLoop(b, ccw) ==
    LET a == Pt(b.x0, b.y0)
        bb == Pt(b.x1, b.y0)
        c == Pt(b.x1, b.y1)
        d == Pt(b.x0, b.y1)
    IN IF ccw
       THEN << Curve(a, bb, FALSE), Curve(bb, c, FALSE), Curve(c, d, FALSE), Curve(d, a, FALSE) >>
       ELSE << Curve(a, d, FALSE), Curve(d, c, FALSE), Curve(c, bb, FALSE), Curve(bb, a, FALSE) >>

\* A full circle as two half arcs between the points west and east of the centre.
CircleLoop(cx, cy, r) ==
    << Curve(Pt(cx + r, cy), Pt(cx - r, cy), TRUE),
       Curve(Pt(cx - r, cy), Pt(cx + r, cy), TRUE) >>

CurveLength(c) ==
    LET d == Abs(c.p1.x - c.p0.x) + Abs(c.p1.y - c.p0.y)
    IN IF c.arc THEN (157 * d) \div 100 ELSE d

LoopLength(cl) == SeqSum([i \in 1..Len(cl) |-> CurveLength(cl[i])])

\* poly_pts = [crv.GetEndPoint(0) for crv in loop]
PolyPts(cl) == [i \in 1..Len(cl) |-> cl[i].p0]

Extents(pts) ==
    Box(SetMin({p.x : p \in Range(pts)}), SetMax({p.x : p \in Range(pts)}),
        SetMin({p.y : p \in Range(pts)}), SetMax({p.y : p \in Range(pts)}))

CurveBox(c) ==
    Box(Min2(c.p0.x, c.p1.x), Max2(c.p0.x, c.p1.x),
        Min2(c.p0.y, c.p1.y), Max2(c.p0.y, c.p1.y))


\* Integer square root by bisection (XYZ.GetLength on millimetre coordinates).
RECURSIVE ISqrtIn(_, _, _)
ISqrtIn(n, lo, hi) ==
    IF lo >= hi THEN lo
    ELSE LET mid == (lo + hi + 1) \div 2
         IN IF mid * mid <= n THEN ISqrtIn(n, mid, hi) ELSE ISqrtIn(n, lo, mid - 1)
\* (the search stops at 40000, whose square still fits 32 bits)
ISqrt(n) == ISqrtIn(n, 0, Min2(n, 40000))

Dist(p, q) == ISqrt((p.x - q.x) * (p.x - q.x) + (p.y - q.y) * (p.y - q.y))

\* _sample_points_on_curveloop: crv.Evaluate(i / samples, normalized) for each curve.
SamplePoints(cl, samples) ==
    Flatten([k \in 1..Len(cl) |->
        [i \in 1..samples |->
            Pt(cl[k].p0.x + ((cl[k].p1.x - cl[k].p0.x) * (i - 1)) \div samples,
               cl[k].p0.y + ((cl[k].p1.y - cl[k].p0.y) * (i - 1)) \div samples)]])

\* _compute_centroid
ComputeCentroid(pts) ==
    IF pts = <<>> THEN Pt(0, 0)
    ELSE Pt(SeqSum([i \in 1..Len(pts) |-> pts[i].x]) \div Len(pts),
            SeqSum([i \in 1..Len(pts) |-> pts[i].y]) \div Len(pts))

\* _average_radius
AverageRadius(cl, centroid, samples) ==
    LET pts == SamplePoints(cl, samples)
    IN IF pts = <<>> THEN 0
       ELSE SeqSum([i \in 1..Len(pts) |-> Dist(pts[i], centroid)]) \div Len(pts)

\* Orientation of a loop by the shoelace sum of its start points.
LoopIsCCW(cl) ==
    LET n == Len(cl)
        nxt(i) == IF i = n THEN 1 ELSE i + 1
    IN SeqSum([i \in 1..n |->
           cl[i].p0.x * cl[nxt(i)].p0.y - cl[nxt(i)].p0.x * cl[i].p0.y]) > 0

\* CurveLoop.CreateViaOffset(loop, dist, BasisZ) on a rectangular loop: the
\* offset direction is tangent x normal, so a positive distance moves the
\* sides of a counter-clockwise loop outwards and those of a clockwise loop
\* inwards.  The host raises when the loop would collapse (hostOk is the
\* host's own verdict on the call).
CreateViaOffset(cl, dist, hostOk) ==
    LET b == Extents(PolyPts(cl))
        ccw == LoopIsCCW(cl)
        e == IF ccw THEN dist ELSE -dist
        nb == Box(b.x0 - e, b.x1 + e, b.y0 - e, b.y1 + e)
    IN IF hostOk /\ nb.x0 < nb.x1 /\ nb.y0 < nb.y1
       THEN [ok |-> TRUE, loop |-> RectLoop(nb, ccw)]
       ELSE [ok |-> FALSE, loop |-> cl]

\* Mutant: the candidate with the larger average radius wins.
offset_loop_outwards(cl, dist, plusOk, minusOk) ==
    LET centroid == ComputeCentroid(SamplePoints(cl, SAMPLES_PER_CURVE))
        plus == CreateViaOffset(cl, dist, plusOk)
        minus == CreateViaOffset(cl, -dist, minusOk)
        candidates == (IF plus.ok THEN <<plus.loop>> ELSE <<>>)
                      \o (IF minus.ok THEN <<minus.loop>> ELSE <<>>)
    IN IF candidates = <<>> THEN cl
       ELSE IF Len(candidates) = 1 THEN candidates[1]
       ELSE IF AverageRadius(candidates[2], centroid, SAMPLES_PER_CURVE)
                 > AverageRadius(candidates[1], centroid, SAMPLES_PER_CURVE)
            THEN candidates[2]
            ELSE candidates[1]

\* Mutant: the first candidate is returned without comparing the radii.
offset_loop_inwards_FirstCandidate(cl, dist, plusOk, minusOk) ==
    LET plus == CreateViaOffset(cl, dist, plusOk)
        minus == CreateViaOffset(cl, -dist, minusOk)
        candidates == (IF plus.ok THEN <<plus.loop>> ELSE <<>>)
                      \o (IF minus.ok THEN <<minus.loop>> ELSE <<>>)
    IN IF candidates = <<>> THEN cl ELSE candidates[1]

\* offset_loop_inwards: the candidate of +/- offset with the smaller average
\* radius about the original centroid; the first one on a tie.
offset_loop_inwards(cl, dist, plusOk, minusOk) ==
    LET centroid == ComputeCentroid(SamplePoints(cl, SAMPLES_PER_CURVE))
        plus == CreateViaOffset(cl, dist, plusOk)
        minus == CreateViaOffset(cl, -dist, minusOk)
        candidates == (IF plus.ok THEN <<plus.loop>> ELSE <<>>)
                      \o (IF minus.ok THEN <<minus.loop>> ELSE <<>>)
    IN IF candidates = <<>> THEN cl
       ELSE IF Len(candidates) = 1 THEN candidates[1]
       ELSE IF AverageRadius(candidates[2], centroid, SAMPLES_PER_CURVE)
                 < AverageRadius(candidates[1], centroid, SAMPLES_PER_CURVE)
            THEN candidates[2]
            ELSE candidates[1]

\* ------------------------------------------------------------ the document
\* Floors of the project.  Floor A is a 3 m square slab with a square opening
\* (the host lists the opening's loop first); floor B is a round slab whose
\* perimeter is two arcs.
FloorA ==
    [id |-> "A", rect |-> Box(0, 3000, 0, 3000), hasTopFace |-> TRUE,
     loops |-> << RectLoop(Box(1200, 1800, 1200, 1800), FALSE),
                  RectLoop(Box(0, 3000, 0, 3000), TRUE) >>]
FloorB ==
    [id |-> "B", rect |-> Box(6000, 8000, 0, 2000), hasTopFace |-> TRUE,
     loops |-> << CircleLoop(7000, 1000, 1000) >>]
Floors == {FloorA, FloorB}
FloorById(id) == CHOOSE f \in Floors : f.id = id

PickPoints == {Pt(300, 300), Pt(7000, 1000), Pt(4500, 4500)}

Sym(t, f, hasHdr, h) ==
    [nameOk |-> TRUE, tname |-> t, fname |-> f, hasHdr |-> hasHdr, hdr |-> h]
Plant(id, x, y, sym, hasSpread, spread, hasTrunk, trunk) ==
    [id |-> id, pt |-> Pt(x, y), hasPoint |-> TRUE, sym |-> sym,
     hasSpread |-> hasSpread, spread |-> spread,
     hasTrunk |-> hasTrunk, trunk |-> trunk]

N_shrub == <<"s", "h", "r", "u", "b">>
N_Tree == <<"T", "r", "e", "e">>
N_TREES == <<"T", "R", "E", "E", "S">>
N_fam == <<"f", "a", "m">>

PlantById ==
    { Plant(1, 600, 600, Sym(N_shrub, N_fam, FALSE, <<>>), TRUE, 400, FALSE, 0),
      Plant(2, 2400, 600, Sym(N_shrub, N_fam, TRUE, N_shrub), FALSE, 0, FALSE, 0),
      Plant(3, 1500, 600, Sym(N_shrub, N_fam, FALSE, <<>>), TRUE, 6000, FALSE, 0),
      Plant(4, 4000, 1500, Sym(N_shrub, N_fam, FALSE, <<>>), TRUE, 400, FALSE, 0),
      Plant(5, 600, 2400, Sym(N_Tree, N_fam, FALSE, <<>>), FALSE, 0, TRUE, 300),
      Plant(6, 4200, 1500, Sym(N_fam, N_fam, TRUE, N_Tree), FALSE, 0, TRUE, 300),
      Plant(7, 2400, 2400, Sym(N_fam, N_TREES, FALSE, <<>>), FALSE, 0, TRUE, 0),
      Plant(8, 2400, 1500, Sym(N_Tree, N_fam, FALSE, <<>>), FALSE, 0, FALSE, 0),
      Plant(9, 12000, 1500, Sym(N_Tree, N_fam, FALSE, <<>>), FALSE, 0, TRUE, 300) }
Plants(ids) == {p \in PlantById : p.id \in ids}

\* The plantings a project may hold around floor A: none; a shrub and a tree on
\* the floor; a shrub without Spread and a tree without Trunk Diameter; a shrub
\* wider than the floor; a shrub beside the floor; trees on, beside and far from
\* the floor.
PlantingScenarios ==
    { Plants({}), Plants({1, 5}), Plants({2, 8}), Plants({3}), Plants({4}),
      Plants({5, 6, 7, 9}) }

\* Curve elements drawn before the tool ever ran.
Line(run, floor, kind, src, box, cat, style) ==
    [run |-> run, floor |-> floor, kind |-> kind, src |-> src, box |-> box,
     hasBox |-> TRUE, cat |-> cat, style |-> style, inView |-> TRUE]

ExistingLines ==
    { Line(0, NoFloor, "old", <<1, 0>>, Box(500, 900, 500, 500),
           "OST_AreaSchemeLines", MIX_BOUNDARY_STYLE_NAME),
      Line(0, NoFloor, "old", <<2, 0>>, Box(3001, 3400, 500, 500),
           "OST_AreaSchemeLines", MIX_BOUNDARY_STYLE_NAME),
      Line(0, NoFloor, "old", <<3, 0>>, Box(3000, 3400, 900, 900),
           "OST_AreaBoundaryLines", MIX_BOUNDARY_STYLE_NAME),
      Line(0, NoFloor, "old", <<4, 0>>, Box(500, 900, 700, 700),
           "OST_AreaSchemeLines", DEFAULT_STYLE_NAME),
      Line(0, NoFloor, "old", <<5, 0>>, Box(500, 900, 800, 800),
           "OST_Lines", DEFAULT_STYLE_NAME),
      [Line(0, NoFloor, "old", <<6, 0>>, Box(500, 900, 900, 900),
            "OST_AreaSchemeLines", MIX_BOUNDARY_STYLE_NAME) EXCEPT !.inView = FALSE],
      [Line(0, NoFloor, "old", <<7, 0>>, Box(500, 900, 1000, 1000),
            "OST_AreaSchemeLines", MIX_BOUNDARY_STYLE_NAME) EXCEPT !.hasBox = FALSE] }


\* ------------------------------------------------------------ state
VARIABLES
    planting,     \* planting instances of the document
    lines,        \* curve elements of the document
    areas,        \* Area elements
    styleExists,  \* the 'BM Mix Boundary' subcategory exists
    sketchPlane,  \* the Area Plan has a sketch plane
    txn,          \* "none" or "open": the transaction of Boundary.main
    saved,        \* the document as it was at t.Start()
    pc,           \* position inside Boundary.main
    run,          \* number of calls of Boundary.main so far
    cur,          \* locals of the running call
    call,         \* the latest call of Boundary.main: its inputs and how it ended
    dialog        \* last TaskDialog shown

boundaryVars == <<planting, lines, areas, styleExists, sketchPlane, txn, saved,
                  pc, run, cur, call, dialog>>

Doc == [lines |-> lines, areas |-> areas, styleExists |-> styleExists,
        sketchPlane |-> sketchPlane]
NoDoc == [lines |-> {}, areas |-> {}, styleExists |-> FALSE, sketchPlane |-> FALSE]

NoName == [given |-> FALSE, text |-> <<>>]
Name(t) == [given |-> TRUE, text |-> t]
MixNames == {NoName, Name(<<>>), Name(<<"M", "1">>)}

NoCur == [floor |-> NoFloor, pick |-> Pt(0, 0), mix_name |-> NoName,
          boundary_style |-> NoStyle,
          has_plant_boundary |-> FALSE, success |-> FALSE, deleted |-> {},
          area_host |-> "none"]
NoCall == [outcome |-> "none", viewType |-> "AreaPlan", pickOk |-> FALSE,
           floor |-> NoFloor, success |-> FALSE,
           has_plant_boundary |-> FALSE]

\* ------------------------------------------------------------ Boundary.py helpers
\* get_floor_below_point: the floor hit by the vertical ray, none without a 3D view.
get_floor_below_point(has3D, pick) ==
    IF ~has3D THEN NoFloor
    ELSE LET hit == {f \in Floors : f.rect.x0 <= pick.x /\ pick.x <= f.rect.x1
                                    /\ f.rect.y0 <= pick.y /\ pick.y <= f.rect.y1}
         IN IF hit = {} THEN NoFloor ELSE (CHOOSE f \in hit : TRUE).id

get_top_planar_face(floor) == floor.hasTopFace

\* The loop of greatest length; the first of them on a tie; 0 when none is longer than 0.
OuterLoopIndex(loops) ==
    LET best == {i \in 1..Len(loops) :
                    /\ LoopLength(loops[i]) > 0
                    /\ \A j \in 1..Len(loops) : LoopLength(loops[j]) <= LoopLength(loops[i])}
    IN IF best = {} THEN 0 ELSE SetMin(best)

\* The checks of create_area_boundaries_from_floor before anything is changed.
FloorUsable(floor) ==
    /\ get_top_planar_face(floor)
    /\ Len(floor.loops) > 0
    /\ OuterLoopIndex(floor.loops) > 0
    /\ Len(PolyPts(floor.loops[OuterLoopIndex(floor.loops)])) >= 3

OuterLoop(floor) == floor.loops[OuterLoopIndex(floor.loops)]

\* get_mix_boundary_linestyle: <<style, subcategory exists afterwards>>.
get_mix_boundary_linestyle(exists, categoryOk) ==
    IF ~categoryOk THEN <<NoStyle, exists>>
    ELSE <<MIX_BOUNDARY_STYLE_NAME, TRUE>>

\* Mutant: boxes that only touch the region are taken as outside it.
BoxesMeet_Strict(bb, minx, maxx, miny, maxy) ==
    ~(bb.x1 <= minx \/ bb.x0 >= maxx \/ bb.y1 <= miny \/ bb.y0 >= maxy)

BoxesMeet(bb, minx, maxx, miny, maxy) ==
    ~(bb.x1 < minx \/ bb.x0 > maxx \/ bb.y1 < miny \/ bb.y0 > maxy)

IsAreaLineCategory(cid) ==
    ~(cid # "OST_AreaSchemeLines" /\ cid # "OST_AreaBoundaryLines")

\* delete_existing_boundaries_in_region: the elements handed to doc.Delete.
ids_to_delete(all, minx, maxx, miny, maxy, boundary_style) ==
    {ce \in all :
        /\ ce.inView
        /\ IsAreaLineCategory(ce.cat)
        /\ (boundary_style # NoStyle => ce.style = boundary_style)
        /\ ce.hasBox
        /\ BoxesMeet(ce.box, minx, maxx, miny, maxy)}

PassesFilter(p, e, margin) ==
    /\ e.x0 - margin <= p.pt.x /\ p.pt.x <= e.x1 + margin
    /\ e.y0 - margin <= p.pt.y /\ p.pt.y <= e.y1 + margin

\* collect_plants: discs (centre, radius) of the non-tree instances with a Spread.
collect_plants(plants, poly_pts, margin) ==
    IF poly_pts = <<>> THEN {}
    ELSE { [c |-> p.pt, r |-> Max2(p.spread \div 2, MIN_PLANT_RADIUS_MM)] :
             p \in {q \in plants : /\ PassesFilter(q, Extents(poly_pts), margin)
                                   /\ q.hasPoint
                                   /\ ~is_tree_symbol(q.sym)
                                   /\ q.hasSpread} }

\* build_disc_solid, on the grid: the footprint of a disc is its bounding square.
build_disc_solid(c, r) == Box(c.x - r, c.x + r, c.y - r, c.y + r)

Intervals(S) == {iv \in S \X S : iv[1] < iv[2] /\ \A c \in S : ~(iv[1] < c /\ c < iv[2])}

\* Edges of the top face of (floor polygon MINUS union of discs): the floor
\* rectangle is cut into cells along the discs' sides; a cell side is an edge
\* when the cell is kept and the cell across that side is not.
PlantMixEdges(b, solids) ==
    LET XS == {b.x0, b.x1} \cup {v \in UNION {{s.x0, s.x1} : s \in solids} : b.x0 < v /\ v < b.x1}
        YS == {b.y0, b.y1} \cup {v \in UNION {{s.y0, s.y1} : s \in solids} : b.y0 < v /\ v < b.y1}
        Cells == Intervals(XS) \X Intervals(YS)
        Cut(c) == \E s \in solids : /\ s.x0 <= c[1][1] /\ c[1][2] <= s.x1
                                    /\ s.y0 <= c[2][1] /\ c[2][2] <= s.y1
        Kept == {c \in Cells : ~Cut(c)}
        South(c) == ~\E d \in Kept : d[1] = c[1] /\ d[2][2] = c[2][1]
        North(c) == ~\E d \in Kept : d[1] = c[1] /\ d[2][1] = c[2][2]
        West(c) == ~\E d \in Kept : d[2] = c[2] /\ d[1][2] = c[1][1]
        East(c) == ~\E d \in Kept : d[2] = c[2] /\ d[1][1] = c[1][2]
    IN  {Box(c[1][1], c[1][2], c[2][1], c[2][1]) : c \in {k \in Kept : South(k)}}
        \cup {Box(c[1][1], c[1][2], c[2][2], c[2][2]) : c \in {k \in Kept : North(k)}}
        \cup {Box(c[1][1], c[1][1], c[2][1], c[2][2]) : c \in {k \in Kept : West(k)}}
        \cup {Box(c[1][2], c[1][2], c[2][1], c[2][2]) : c \in {k \in Kept : East(k)}}

EdgeLength(e) == (e.x1 - e.x0) + (e.y1 - e.y0)

\* Mutant: the style is never assigned.
StyleOfNew_Default(boundary_style) == DEFAULT_STYLE_NAME

\* The line style a new Area Boundary line ends up with.
StyleOfNew(boundary_style) ==
    IF boundary_style # NoStyle THEN boundary_style ELSE DEFAULT_STYLE_NAME

\* create_plant_area_boundary: the Area Boundary lines it creates.
create_plant_area_boundary(plants, outer_loop, r, floorId, boundary_style) ==
    LET poly_pts == PolyPts(outer_loop)
        discs == collect_plants(plants, poly_pts, SEARCH_MARGIN_MM)
        solids == {build_disc_solid(d.c, d.r + Max2(0, PLANT_OFFSET_MM)) : d \in discs}
        edges == PlantMixEdges(Extents(poly_pts), solids)
    IN IF Len(poly_pts) < 3 \/ discs = {} THEN {}
       ELSE { Line(r, floorId, "plant", <<0, 0>>, e, "OST_AreaSchemeLines",
                   StyleOfNew(boundary_style)) :
                e \in {x \in edges : ~(EdgeLength(x) < MIN_SEGMENT_MM)} }

\* The instances draw_tree_trunks draws a circle for.
TrunkTrees(plants, poly_pts, margin) ==
    {q \in plants : /\ PassesFilter(q, Extents(poly_pts), margin)
                    /\ q.hasPoint
                    /\ is_tree_symbol(q.sym)
                    /\ q.hasTrunk
                    /\ ~(q.trunk <= 0)}

\* Mutant: the 100 mm are not added.
TrunkRadius_NoExtra(diam) == diam \div 2

TrunkRadius(diam) == (diam + TREE_EXTRA_DIAM_MM) \div 2

\* draw_tree_trunks: two arcs per tree, the upper and the lower half circle.
draw_tree_trunks(plants, outer_loop, r, floorId, boundary_style) ==
    LET poly_pts == PolyPts(outer_loop)
        trees == IF poly_pts = <<>> THEN {}
                 ELSE TrunkTrees(plants, poly_pts, SEARCH_MARGIN_MM)
        rad(q) == TrunkRadius(q.trunk)
    IN { Line(r, floorId, "trunk", <<q.id, 1>>,
              Box(q.pt.x - rad(q), q.pt.x + rad(q), q.pt.y, q.pt.y + rad(q)),
              "OST_AreaSchemeLines", StyleOfNew(boundary_style)) : q \in trees }
       \cup
       { Line(r, floorId, "trunk", <<q.id, 2>>,
              Box(q.pt.x - rad(q), q.pt.x + rad(q), q.pt.y - rad(q), q.pt.y),
              "OST_AreaSchemeLines", StyleOfNew(boundary_style)) : q \in trees }

\* The floor-outline lines of loops 1..upTo: one per curve of each offset loop.
FloorOutlineLines(floor, upTo, r, boundary_style) ==
    UNION { LET offset_cl == offset_loop_inwards(floor.loops[k], FLOOR_OFFSET_MM,
                                                 TRUE, TRUE)
            IN { Line(r, floor.id, "outline", <<k, j>>, CurveBox(offset_cl[j]),
                      "OST_AreaSchemeLines", StyleOfNew(boundary_style)) :
                   j \in 1..Len(offset_cl) } : k \in 1..upTo }


\* ------------------------------------------------------------ Boundary.main
ViewTypes == {"AreaPlan", "FloorPlan"}

\* Mutant: the view type is not looked at.
MainProceeds_NoViewCheck(viewType, pickOk, floorId) ==
    /\ pickOk
    /\ floorId # NoFloor

\* main goes on to t.Start() only in an Area Plan, with a picked point and a floor below it.
MainProceeds(viewType, pickOk, floorId) ==
    /\ viewType = "AreaPlan"
    /\ pickOk
    /\ floorId # NoFloor

\* main(mix_name) up to and including t.Start(), or one of its early returns.
\* The view type is looked at first, then the point is picked, then the floor
\* is searched: call records what the run got to see.
Main(viewType, pickOk, pick, has3D, mix_name) ==
    /\ pc = "idle"
    /\ run < MaxRuns
    /\ run' = run + 1
    /\ LET floorId == get_floor_below_point(has3D, pick)
           seen == [NoCall EXCEPT
                      !.viewType = viewType,
                      !.pickOk = (viewType = "AreaPlan" /\ pickOk),
                      !.floor = IF viewType = "AreaPlan" /\ pickOk THEN floorId ELSE NoFloor]
       IN IF MainProceeds(viewType, pickOk, floorId)
          THEN /\ txn' = "open"
               /\ saved' = Doc
               /\ pc' = "prepare"
               /\ cur' = [NoCur EXCEPT !.floor = floorId, !.pick = pick,
                                       !.mix_name = mix_name]
               /\ call' = [seen EXCEPT !.outcome = "running"]
               /\ UNCHANGED dialog
          ELSE /\ call' = [seen EXCEPT !.outcome = "early"]
               /\ dialog' = IF viewType # "AreaPlan" THEN "not an Area Plan"
                            ELSE IF ~pickOk THEN "none"
                            ELSE "no floor below point"
               /\ UNCHANGED <<txn, saved, pc, cur>>
    /\ UNCHANGED <<planting, lines, areas, styleExists, sketchPlane>>

\* create_area_boundaries_from_floor, lines 596-663: the floor checks, the
\* sketch plane and the line style.
Prepare(categoryOk) ==
    /\ pc = "prepare"
    /\ LET floor == FloorById(cur.floor)
       IN IF ~FloorUsable(floor)
          THEN /\ cur' = [cur EXCEPT !.success = FALSE]
               /\ dialog' = "floor unusable"
               /\ pc' = "area"
               /\ UNCHANGED <<styleExists, sketchPlane>>
          ELSE LET st == get_mix_boundary_linestyle(styleExists, categoryOk)
               IN /\ sketchPlane' = TRUE
                  /\ styleExists' = st[2]
                  /\ cur' = [cur EXCEPT !.boundary_style = st[1]]
                  /\ pc' = "delete"
                  /\ UNCHANGED dialog
    /\ UNCHANGED <<planting, lines, areas, txn, saved, run, call>>

\* lines 665-668: delete_existing_boundaries_in_region over the floor extents.
DeleteExisting ==
    /\ pc = "delete"
    /\ LET e == Extents(PolyPts(OuterLoop(FloorById(cur.floor))))
           ids == ids_to_delete(lines, e.x0, e.x1, e.y0, e.y1, cur.boundary_style)
       IN /\ lines' = lines \ ids
          /\ cur' = [cur EXCEPT !.deleted = ids]
    /\ pc' = "plant"
    /\ UNCHANGED <<planting, areas, styleExists, sketchPlane, txn, saved, run, call, dialog>>

\* Mutant: the deletion is (also) run after the plant boundary was created.
PlantBoundary_ThenDelete ==
    /\ pc = "plant"
    /\ LET new == create_plant_area_boundary(planting, OuterLoop(FloorById(cur.floor)),
                      run, cur.floor, cur.boundary_style)
           e == Extents(PolyPts(OuterLoop(FloorById(cur.floor))))
           ids == ids_to_delete(lines \cup new, e.x0, e.x1, e.y0, e.y1, cur.boundary_style)
       IN /\ lines' = (lines \cup new) \ ids
          /\ cur' = [cur EXCEPT !.has_plant_boundary = (new # {}),
                                !.deleted = cur.deleted \cup ids]
    /\ pc' = "trunks"
    /\ UNCHANGED <<planting, areas, styleExists, sketchPlane, txn, saved, run, call, dialog>>

\* lines 670-673: create_plant_area_boundary.
PlantBoundary ==
    /\ pc = "plant"
    /\ LET new == create_plant_area_boundary(planting, OuterLoop(FloorById(cur.floor)),
                      run, cur.floor, cur.boundary_style)
       IN /\ lines' = lines \cup new
          /\ cur' = [cur EXCEPT !.has_plant_boundary = (new # {})]
    /\ pc' = "trunks"
    /\ UNCHANGED <<planting, areas, styleExists, sketchPlane, txn, saved, run, call, dialog>>

\* lines 675-680: draw_tree_trunks, then the return when a plant boundary exists.
TreeTrunks ==
    /\ pc = "trunks"
    /\ lines' = lines \cup draw_tree_trunks(planting, OuterLoop(FloorById(cur.floor)),
                               run, cur.floor, cur.boundary_style)
    /\ IF cur.has_plant_boundary
       THEN /\ cur' = [cur EXCEPT !.success = TRUE]
            /\ pc' = "area"
       ELSE /\ pc' = "outline"
            /\ UNCHANGED cur
    /\ UNCHANGED <<planting, areas, styleExists, sketchPlane, txn, saved, run, call, dialog>>

\* lines 682-709: the floor outline, 5 mm inside.  NewAreaBoundaryLine is not
\* guarded here: when the host raises (on the first curve of the last loop)
\* the exception leaves create_area_boundaries_from_floor.
FloorOutline(lineOk) ==
    /\ pc = "outline"
    /\ LET floor == FloorById(cur.floor)
       IN IF lineOk
          THEN /\ lines' = lines \cup FloorOutlineLines(floor, Len(floor.loops),
                                          run, cur.boundary_style)
               /\ cur' = [cur EXCEPT !.success = TRUE]
               /\ dialog' = "No non-tree plants found in this floor"
               /\ pc' = "area"
          ELSE /\ lines' = lines \cup FloorOutlineLines(floor, Len(floor.loops) - 1,
                                          run, cur.boundary_style)
               /\ pc' = "failed"
               /\ UNCHANGED <<cur, dialog>>
    /\ UNCHANGED <<planting, areas, styleExists, sketchPlane, txn, saved, run, call>>

\* main, lines 744-753: NewArea at the picked point and the Name parameter.
\* host: "ok", "new_area_raises", "name_set_raises"; both failures are logged only.
AreaHosts == {"ok", "new_area_raises", "name_set_raises"}
\* Mutant: the Name is written whether or not a mix_name was given.
NewAreaRecord_AlwaysNamed(r, pick, mix_name, host) ==
    IF host = "new_area_raises" THEN {}
    ELSE {[run |-> r, pt |-> pick, named |-> TRUE, name |-> mix_name.text]}

NewAreaRecord(r, pick, mix_name, host) ==
    IF host = "new_area_raises" THEN {}
    ELSE IF mix_name.given /\ mix_name.text # <<>> /\ host = "ok"
         THEN {[run |-> r, pt |-> pick, named |-> TRUE, name |-> mix_name.text]}
         ELSE {[run |-> r, pt |-> pick, named |-> FALSE, name |-> <<>>]}

PlaceArea(host) ==
    /\ pc = "area"
    /\ areas' = areas \cup NewAreaRecord(run, cur.pick, cur.mix_name, host)
    /\ cur' = [cur EXCEPT !.area_host = host]
    /\ pc' = "commit"
    /\ UNCHANGED <<planting, lines, styleExists, sketchPlane, txn, saved, run, call, dialog>>

\* line 755: t.Commit()
Commit ==
    /\ pc = "commit"
    /\ txn' = "none"
    /\ saved' = NoDoc
    /\ call' = [call EXCEPT !.outcome = "commit", !.success = cur.success,
                             !.has_plant_boundary = cur.has_plant_boundary]
    /\ cur' = NoCur
    /\ pc' = "idle"
    /\ UNCHANGED <<planting, lines, areas, styleExists, sketchPlane, run, dialog>>

\* Mutant: the failure dialog is shown but the transaction is committed.
RollBack_KeepsChanges ==
    /\ pc = "failed"
    /\ txn' = "none"
    /\ saved' = NoDoc
    /\ call' = [call EXCEPT !.outcome = "rollback"]
    /\ cur' = NoCur
    /\ dialog' = "Failed to create boundaries and Area"
    /\ pc' = "idle"
    /\ UNCHANGED <<planting, lines, areas, styleExists, sketchPlane, run>>

\* lines 756-760: t.RollBack() and the failure dialog.
RollBack ==
    /\ pc = "failed"
    /\ lines' = saved.lines
    /\ areas' = saved.areas
    /\ styleExists' = saved.styleExists
    /\ sketchPlane' = saved.sketchPlane
    /\ txn' = "none"
    /\ saved' = NoDoc
    /\ call' = [call EXCEPT !.outcome = "rollback"]
    /\ cur' = NoCur
    /\ dialog' = "Failed to create boundaries and Area"
    /\ pc' = "idle"
    /\ UNCHANGED <<planting, run>>

\* ------------------------------------------------------------ state of the mix editor
VARIABLES
    elems,         \* bm_massed_mix annotation instances: element id -> parameters
    scheme,        \* the Area colour fill scheme of the document
    frTypes,       \* FilledRegionTypes of the document
    strips,        \* FilledRegions (legend strips) of the host view, by type name
    mixes,         \* MixWindowController.mixes: the in-memory MixModels
    area_renames,  \* MixWindowController._area_renames
    focus,         \* the percent or spacing cell whose LostFocus handler is due
    edits,         \* number of user edits so far
    last           \* the handler that ran last and how it ended

mixVars == <<elems, scheme, frTypes, strips, mixes, area_renames, focus, edits, last>>

\* ------------------------------------------------------------ state of one offset call
VARIABLES
    offset         \* a call of offset_loop_inwards: arguments, host verdicts, result

NoOffset == [cl |-> <<>>, dist |-> 0, called |-> FALSE,
             plusOk |-> FALSE, minusOk |-> FALSE, result |-> <<>>]

NoScheme == [exists |-> FALSE, entries |-> <<>>]
NoFocus == [mix |-> 0, row |-> 0, field |-> "none"]
NoLast == [op |-> "none", outcome |-> "none"]

\* The mix editor window is not open while Boundary.main runs.
EditorClosed ==
    /\ elems = <<>>
    /\ scheme = NoScheme
    /\ frTypes = {}
    /\ strips = {}
    /\ mixes = <<>>
    /\ area_renames = <<>>
    /\ focus = NoFocus
    /\ edits = 0
    /\ last = NoLast

Init ==
    /\ planting \in PlantingScenarios
    /\ styleExists \in BOOLEAN
    /\ lines = {l \in ExistingLines : l.style = MIX_BOUNDARY_STYLE_NAME => styleExists}
    /\ areas = {}
    /\ sketchPlane = styleExists
    /\ txn = "none"
    /\ saved = NoDoc
    /\ pc = "idle"
    /\ run = 0
    /\ cur = NoCur
    /\ call = NoCall
    /\ dialog = "none"
    /\ EditorClosed
    /\ offset = NoOffset

Next ==
    \/ \E vt \in ViewTypes, pickOk \in BOOLEAN, pick \in PickPoints, has3D \in BOOLEAN,
          mn \in MixNames : Main(vt, pickOk, pick, has3D, mn) /\ UNCHANGED <<mixVars, offset>>
    \/ \E categoryOk \in BOOLEAN : Prepare(categoryOk) /\ UNCHANGED <<mixVars, offset>>
    \/ DeleteExisting /\ UNCHANGED <<mixVars, offset>>
    \/ PlantBoundary /\ UNCHANGED <<mixVars, offset>>
    \/ TreeTrunks /\ UNCHANGED <<mixVars, offset>>
    \/ \E lineOk \in BOOLEAN : FloorOutline(lineOk) /\ UNCHANGED <<mixVars, offset>>
    \/ \E host \in AreaHosts : PlaceArea(host) /\ UNCHANGED <<mixVars, offset>>
    \/ Commit /\ UNCHANGED <<mixVars, offset>>
    \/ RollBack /\ UNCHANGED <<mixVars, offset>>

vars == <<boundaryVars, mixVars, offset>>

Spec == Init /\ [][Next]_vars


\* ------------------------------------------------------------ claims: Boundary.py
CurFloor == FloorById(cur.floor)
RunLines(r) == {l \in lines : l.run = r}
KindOf(r, k) == {l \in lines : l.run = r /\ l.kind = k}

\* The run has come back from create_area_boundaries_from_floor past the floor checks.
Returned == pc \in {"area", "commit"} /\ FloorUsable(CurFloor)

TreeNamed(sym) ==
    \E n \in {sym.tname, sym.fname} \cup (IF sym.hasHdr THEN {sym.hdr} ELSE {}) :
        Contains(Lower(n), TREE_KEYWORD)

Inside(pt, b) == b.x0 <= pt.x /\ pt.x <= b.x1 /\ b.y0 <= pt.y /\ pt.y <= b.y1
Widen(b, m) == Box(b.x0 - m, b.x1 + m, b.y0 - m, b.y1 + m)
FloorExtents(floor) == Extents(PolyPts(OuterLoop(floor)))

\* On the slab: within the outer perimeter and not within an opening.
InFootprint(pt, floor) ==
    /\ Inside(pt, FloorExtents(floor))
    /\ \A k \in 1..Len(floor.loops) :
          k # OuterLoopIndex(floor.loops) => ~Inside(pt, Extents(PolyPts(floor.loops[k])))

SidesOf(b) ==
    { Box(b.x0, b.x1, b.y0, b.y0), Box(b.x0, b.x1, b.y1, b.y1),
      Box(b.x0, b.x0, b.y0, b.y1), Box(b.x1, b.x1, b.y0, b.y1) }

\* One line per curve of every perimeter loop, each loop moved 5 mm towards its inside.
OutlineDrawn(floor, r) ==
    \A k \in 1..Len(floor.loops) :
        LET b == Extents(PolyPts(floor.loops[k]))
            mine == {l \in KindOf(r, "outline") : l.src[1] = k}
        IN /\ Cardinality(mine) = Len(floor.loops[k])
           /\ {l.box : l \in mine} =
                 SidesOf(Box(b.x0 + FLOOR_OFFSET_MM, b.x1 - FLOOR_OFFSET_MM,
                             b.y0 + FLOOR_OFFSET_MM, b.y1 - FLOOR_OFFSET_MM))

\* C1 (as claimed): with at least one non-tree planting instance in the floor
\* footprint, the run creates the plant-inverse boundary and draws no
\* floor-outline line.
C1_PlantInFootprintGivesInverseBoundary ==
    Returned =>
        ((\E p \in planting : ~TreeNamed(p.sym) /\ InFootprint(p.pt, CurFloor))
            => (KindOf(run, "plant") # {} /\ KindOf(run, "outline") = {}))

CircleDrawn(p, r) ==
    LET arcs == {l \in KindOf(r, "trunk") : l.src[1] = p.id}
        d == p.trunk + TREE_EXTRA_DIAM_MM
    IN /\ Cardinality(arcs) = 2
       /\ \A l \in arcs : l.box.x1 - l.box.x0 = d /\ l.box.x0 + l.box.x1 = 2 * p.pt.x
       /\ SetMax({l.box.y1 : l \in arcs}) - SetMin({l.box.y0 : l \in arcs}) = d
       /\ SetMax({l.box.y1 : l \in arcs}) + SetMin({l.box.y0 : l \in arcs}) = 2 * p.pt.y

C4_RerunLeavesNoEarlierLine ==
    (pc = "idle" /\ call.outcome = "commit" /\ call.success) =>
        ~\E l \in lines : /\ l.style = MIX_BOUNDARY_STYLE_NAME
                          /\ l.run >= 1 /\ l.run < run
                          /\ l.floor = call.floor

\* C5: within a run the deletion comes before any creation: nothing of the run
\* exists when the deletion runs, and nothing the run deleted was drawn by it.
C5_DeletionBeforeCreation ==
    /\ pc \in {"prepare", "delete"} => RunLines(run) = {}
    /\ pc # "idle" => \A l \in cur.deleted : l.run < run

C5_Witness ==
    /\ pc = "commit"
    /\ cur.deleted # {}
    /\ RunLines(run) # {}

Overlap(a, b) ==
    /\ Max2(a.x0, b.x0) <= Min2(a.x1, b.x1)
    /\ Max2(a.y0, b.y0) <= Min2(a.y1, b.y1)

\* C6: the deletion removes exactly the curves of the view in the Area Scheme
\* Lines / Area Boundary Lines categories whose bounding box meets the floor
\* extents and, when a style is given, whose line style is that style; every
\* other curve is left as it was.
C6_DeletesExactlyMatching ==
    pc = "plant" =>
        LET match == {l \in saved.lines :
                        /\ l.inView
                        /\ l.cat \in {"OST_AreaSchemeLines", "OST_AreaBoundaryLines"}
                        /\ l.hasBox
                        /\ Overlap(l.box, FloorExtents(CurFloor))
                        /\ (cur.boundary_style # NoStyle => l.style = cur.boundary_style)}
        IN lines = saved.lines \ match /\ cur.deleted = match

C6_Witness ==
    /\ pc = "plant"
    /\ cur.deleted # {}
    /\ cur.boundary_style # NoStyle
    /\ \E l \in lines : l.style = MIX_BOUNDARY_STYLE_NAME /\ l.inView /\ l.hasBox

Provided(mix_name) == mix_name.given /\ mix_name.text # <<>>

AreaAsAsked ==
    LET mine == {a \in areas : a.run = run}
    IN /\ Cardinality(mine) = 1
       /\ \A a \in mine :
             /\ a.pt = cur.pick
             /\ Provided(cur.mix_name) => (a.named /\ a.name = cur.mix_name.text)
             /\ ~Provided(cur.mix_name) => ~a.named

C9_EarlyReturnChangesNothing ==
    [][ ( /\ pc = "idle" /\ run' = run + 1
          /\ (call'.viewType # "AreaPlan" \/ ~call'.pickOk \/ call'.floor = NoFloor) )
        => (txn' = "none" /\ pc' = "idle" /\ Doc' = Doc) ]_vars

C9_Witness ==
    /\ call.outcome = "early"
    /\ call.viewType = "AreaPlan"
    /\ call.pickOk
    /\ areas # {}
    /\ txn = "none"

\* ============================================================ script.py
\* Strings are sequences of characters.  Numbers are fixed-point integers with
\* four decimals (SCALE); digits of a literal beyond the fourth decimal are
\* dropped, and a tie is rounded away from zero.
MAX_SPECIES == 15
SCALE == 10000

\* ------------------------------------------------------------ bounds of the editor
MaxEdits == 1

\* ------------------------------------------------------------ strings and numbers
Digits == <<"0", "1", "2", "3", "4", "5", "6", "7", "8", "9">>
IsDigit(c) == \E i \in 1..10 : Digits[i] = c
DigitVal(c) == (CHOOSE i \in 1..10 : Digits[i] = c) - 1

RECURSIVE LStrip(_)
LStrip(s) == IF s # <<>> /\ Head(s) = " " THEN LStrip(Tail(s)) ELSE s
RECURSIVE RStrip(_, _)
RStrip(s, ch) ==
    IF s # <<>> /\ s[Len(s)] = ch THEN RStrip(SubSeq(s, 1, Len(s) - 1), ch) ELSE s
Strip(s) == RStrip(LStrip(s), " ")
Remove(s, ch) == SelectSeq(s, LAMBDA c : c # ch)
Replace(s, a, b) == [i \in 1..Len(s) |-> IF s[i] = a THEN b ELSE s[i]]

RECURSIVE DigitsVal(_)
DigitsVal(ds) ==
    IF ds = <<>> THEN 0
    ELSE DigitsVal(SubSeq(ds, 1, Len(ds) - 1)) * 10 + DigitVal(ds[Len(ds)])

RECURSIVE NatStr(_)
NatStr(n) ==
    IF n < 10 THEN <<Digits[n + 1]>>
    ELSE NatStr(n \div 10) \o <<Digits[(n % 10) + 1]>>
IntStr(i) == IF i < 0 THEN <<"-">> \o NatStr(-i) ELSE NatStr(i)

RECURSIVE Pow10(_)
Pow10(k) == IF k = 0 THEN 1 ELSE 10 * Pow10(k - 1)

\* round(a / b) for b > 0
RoundDiv(a, b) ==
    IF a >= 0 THEN (2 * a + b) \div (2 * b) ELSE -((2 * (-a) + b) \div (2 * b))

RECURSIVE ZeroPad(_, _)
ZeroPad(ds, k) == IF Len(ds) >= k THEN ds ELSE ZeroPad(<<"0">> \o ds, k)

\* '%.<d>f' % x, for x = q / 10^d
FixedStr(q, d) ==
    (IF q < 0 THEN <<"-">> ELSE <<>>)
        \o NatStr(Abs(q) \div Pow10(d)) \o <<".">> \o ZeroPad(NatStr(Abs(q) % Pow10(d)), d)

\* .rstrip('0').rstrip('.')
StripZeros(s) == RStrip(RStrip(s, "0"), ".")

\* float(s) of Python for a string of digits, '.' and '-': the value times SCALE.
NoFloat == [ok |-> FALSE, v |-> 0]
float(s) ==
    LET neg == s # <<>> /\ Head(s) = "-"
        body == IF neg THEN Tail(s) ELSE s
        dots == {i \in 1..Len(body) : body[i] = "."}
        dot == IF dots = {} THEN Len(body) + 1 ELSE CHOOSE i \in dots : TRUE
        ip == SubSeq(body, 1, dot - 1)
        fp == SubSeq(body, dot + 1, Len(body))
        fp4 == SubSeq(fp \o <<"0", "0", "0", "0">>, 1, 4)
        ok == /\ Cardinality(dots) <= 1
              /\ \A i \in 1..Len(body) : i \in dots \/ IsDigit(body[i])
              /\ Len(ip) + Len(fp) > 0
        mag == DigitsVal(ip) * SCALE + DigitsVal(fp4)
    IN IF ok THEN [ok |-> TRUE, v |-> IF neg THEN -mag ELSE mag] ELSE NoFloat

IsNumberChar(ch) == IsDigit(ch) \/ ch \in {".", "-"}
IsNumberOrComma(ch) == IsDigit(ch) \/ ch \in {".", ",", "-"}

\* ------------------------------------------------------------ percent and spacing
\* lines 873-899: stored decimal (or percent-ish) value -> '50%'
pct_raw_to_display(raw) ==
    LET s == Strip(raw)
        s_num == Strip(SelectSeq(Replace(Remove(s, "%"), ",", "."), IsNumberChar))
        f == float(s_num)
        perc == IF f.v <= SCALE THEN f.v * 100 ELSE f.v
        int_perc == RoundDiv(perc, SCALE)
        num_str == IF perc = int_perc * SCALE
                   THEN IntStr(int_perc)
                   ELSE StripZeros(FixedStr(RoundDiv(perc, SCALE \div 100), 2))
    IN IF s = <<>> \/ s_num = <<>> \/ ~f.ok THEN <<>> ELSE num_str \o <<"%">>

\* lines 902-926: '50%', '50' or '0.5' -> decimal string '0.5'
pct_display_to_raw(display) ==
    LET s == Strip(display)
        s_num == Strip(SelectSeq(Replace(Remove(s, "%"), ",", "."), IsNumberChar))
        f == float(s_num)
        raw == IF f.v > SCALE THEN RoundDiv(f.v, 100) ELSE f.v
        raw_str == StripZeros(FixedStr(raw, 4))
    IN IF s = <<>> \/ s_num = <<>> \/ ~f.ok THEN <<>>
       ELSE IF raw_str = <<>> THEN <<"0">> ELSE raw_str

\* lines 930-952: stored millimetres -> 'Xm'
space_raw_to_display(raw) ==
    LET s == Strip(raw)
        s_num == Strip(Replace(SelectSeq(s, IsNumberOrComma), ",", "."))
        f == float(s_num)
        int_m == RoundDiv(f.v, 1000 * SCALE)
        num_str == IF Abs(f.v - int_m * 1000 * SCALE) < SCALE \div 1000
                   THEN IntStr(int_m)
                   ELSE StripZeros(FixedStr(RoundDiv(f.v, SCALE), 3))
    IN IF s = <<>> \/ s_num = <<>> \/ ~f.ok THEN <<>> ELSE num_str \o <<"m">>

\* lines 955-975: '1.5m' or '1.5' -> millimetres '1500'.  Removing 'mm' and
\* then 'm' removes every 'm'.
space_display_to_raw(display) ==
    LET s == Remove(Lower(Strip(display)), "m")
        s_num == Strip(Replace(SelectSeq(s, IsNumberOrComma), ",", "."))
        f == float(s_num)
    IN IF Strip(display) = <<>> \/ s_num = <<>> \/ ~f.ok THEN <<>>
       ELSE IntStr(RoundDiv(f.v, SCALE \div 1000))

\* ------------------------------------------------------------ parameters
PARAM_MIX_NAME == <<"Mix Name", 0>>
PARAM_NUM_SPECIES == <<"Num_Species", 0>>
PARAM_SPECIES_CODE_TEMPLATE(i) == <<"S_Code", i>>
PARAM_SPECIES_PCT_TEMPLATE(i) == <<"S_Pct", i>>
PARAM_SPECIES_SPACE_TEMPLATE(i) == <<"S_Space", i>>
PARAM_SPECIES_BOT_TEMPLATE(i) == <<"S_Bot", i>>
PARAM_SPECIES_COM_TEMPLATE(i) == <<"S_Com", i>>
PARAM_SPECIES_GRADE_TEMPLATE(i) == <<"S_Grade", i>>
UNNAMED_MIX == <<"(", "u", "n", "n", "a", "m", "e", "d", " ", "m", "i", "x", ")">>

\* A parameter: its storage type, HasValue, and the value it stores.  A Double
\* holds a length, kept here as millimetres times SCALE (the host keeps feet;
\* on_apply divides by 304.8 and the host multiplies back when it shows it).
StringParam(has, s) == [st |-> "String", has |-> has, s |-> s, i |-> 0, d |-> 0]
IntegerParam(i) == [st |-> "Integer", has |-> TRUE, s |-> <<>>, i |-> i, d |-> 0]
DoubleParam(has, d) == [st |-> "Double", has |-> has, s |-> <<>>, i |-> 0, d |-> d]

\* Python values handed to set_param: a unicode string or an int.
U(s) == [py |-> "unicode", s |-> s, i |-> 0]
I(i) == [py |-> "int", s |-> <<>>, i |-> i]

\* int(value) of Python
NoInt == [ok |-> FALSE, v |-> 0]
int(value) ==
    IF value.py = "int" THEN [ok |-> TRUE, v |-> value.i]
    ELSE LET s == Strip(value.s)
             neg == s # <<>> /\ Head(s) = "-"
             body == IF neg THEN Tail(s) ELSE s
         IN IF body # <<>> /\ \A k \in 1..Len(body) : IsDigit(body[k])
            THEN [ok |-> TRUE, v |-> IF neg THEN -DigitsVal(body) ELSE DigitsVal(body)]
            ELSE NoInt

\* Parameter.AsValueString() of a length: whole millimetres, as the project shows them.
AsValueString(p) == IntStr(RoundDiv(p.d, SCALE))

\* lines 306-327.  None is the empty string here: every caller treats the two alike.
get_param(element, name) ==
    IF name \notin DOMAIN element THEN <<>>
    ELSE LET p == element[name]
         IN IF ~p.has THEN <<>>
            ELSE CASE p.st = "String" -> p.s
                   [] p.st = "Integer" -> IntStr(p.i)
                   [] p.st = "Double" -> AsValueString(p)
                   [] OTHER -> <<>>

\* lines 343-366: what p.Set leaves in the parameter
SetValue(p, value) ==
    LET blank == value.py = "unicode" /\ value.s = <<>>
    IN CASE p.st = "String" ->
              \* Set(int) on a String parameter raises; the exception is swallowed
              IF value.py = "unicode" THEN [p EXCEPT !.s = value.s, !.has = TRUE] ELSE p
         [] p.st = "Integer" ->
              [p EXCEPT !.has = TRUE,
                        !.i = IF blank \/ ~int(value).ok THEN 0 ELSE int(value).v]
         [] p.st = "Double" ->
              LET f1 == IF value.py = "int" THEN [ok |-> TRUE, v |-> value.i * SCALE]
                        ELSE float(Strip(value.s))
                  f2 == IF f1.ok \/ value.py = "int" THEN f1
                        ELSE float(Strip(Replace(value.s, ",", ".")))
              IN [p EXCEPT !.has = TRUE, !.d = IF blank \/ ~f2.ok THEN 0 ELSE f2.v]
         [] OTHER -> p

\* lines 330-375
set_param(element, name, value) ==
    IF name \notin DOMAIN element THEN element
    ELSE [element EXCEPT ![name] = SetValue(@, value)]

\* lines 389-396: what p_dst.Set(p_src.As...()) leaves in p_dst
CopyValue(p_src, p_dst) ==
    IF p_src.st # p_dst.st \/ ~p_src.has THEN p_dst
    ELSE [p_dst EXCEPT !.has = TRUE, !.s = p_src.s, !.i = p_src.i, !.d = p_src.d]

\* lines 378-405
copy_param_between_elements(src_elem, dst_elem, param_name) ==
    IF param_name \notin DOMAIN src_elem \/ param_name \notin DOMAIN dst_elem THEN dst_elem
    ELSE [dst_elem EXCEPT ![param_name] = CopyValue(src_elem[param_name], @)]

\* ------------------------------------------------------------ SpeciesRow, MixModel
NoColor == "none"
NoEntry == [value |-> <<>>, caption |-> <<>>, color |-> NoColor]

SpeciesRow(index, code, pct, spacing, bot, com, grade) ==
    [index |-> index, code |-> code, pct |-> pct, spacing |-> spacing,
     bot |-> bot, com |-> com, grade |-> grade]

\* lines 1033-1053
load_rows(element, num_species) ==
    [i \in 1..num_species |->
        SpeciesRow(i,
                   get_param(element, PARAM_SPECIES_CODE_TEMPLATE(i)),
                   pct_raw_to_display(get_param(element, PARAM_SPECIES_PCT_TEMPLATE(i))),
                   space_raw_to_display(get_param(element, PARAM_SPECIES_SPACE_TEMPLATE(i))),
                   get_param(element, PARAM_SPECIES_BOT_TEMPLATE(i)),
                   get_param(element, PARAM_SPECIES_COM_TEMPLATE(i)),
                   get_param(element, PARAM_SPECIES_GRADE_TEMPLATE(i)))]

\* lines 994-1031
MixModel(id, element) ==
    LET name == get_param(element, PARAM_MIX_NAME)
        ns == get_param(element, PARAM_NUM_SPECIES)
        n0 == IF ns = <<>> \/ ~int(U(ns)).ok THEN 0 ELSE int(U(ns)).v
        num == IF n0 < 0 THEN 0 ELSE IF n0 > MAX_SPECIES THEN MAX_SPECIES ELSE n0
    IN [element |-> id,
        mix_name |-> IF name = <<>> THEN UNNAMED_MIX ELSE name,
        num_species |-> num,
        rows |-> load_rows(element, num),
        dirty |-> FALSE,
        area_color_entry |-> NoEntry,
        area_color_dbcolor |-> NoColor,
        area_color_new_dbcolor |-> NoColor]

\* lines 1055-1062 (index counted from 1 here)
remove_row_at(mix, index) ==
    IF index < 1 \/ index > Len(mix.rows) THEN mix
    ELSE LET kept == SubSeq(mix.rows, 1, index - 1) \o SubSeq(mix.rows, index + 1, Len(mix.rows))
         IN [mix EXCEPT !.rows = [k \in 1..Len(kept) |-> [kept[k] EXCEPT !.index = k]],
                        !.num_species = Len(kept),
                        !.dirty = TRUE]

\* lines 1064-1070
add_row(mix) ==
    IF Len(mix.rows) >= MAX_SPECIES THEN mix
    ELSE [mix EXCEPT !.rows = Append(@, SpeciesRow(Len(mix.rows) + 1,
                                                   <<>>, <<>>, <<>>, <<>>, <<>>, <<>>)),
                     !.num_species = Len(mix.rows) + 1,
                     !.dirty = TRUE]

\* ------------------------------------------------------------ ordering of names
CharOrder ==
    <<" ", "%", "(", ")", ",", "-", ".">> \o Digits \o Upper \o <<"_">> \o Letters
Ord(c) == CHOOSE i \in 1..Len(CharOrder) : CharOrder[i] = c

RECURSIVE StrLess(_, _)
StrLess(a, b) ==
    IF b = <<>> THEN FALSE
    ELSE IF a = <<>> THEN TRUE
    ELSE IF Head(a) = Head(b) THEN StrLess(Tail(a), Tail(b))
    ELSE Ord(Head(a)) < Ord(Head(b))

\* list.sort(key=lambda m: (m.mix_name or u'').lower()): stable
RECURSIVE InsertByName(_, _)
InsertByName(sorted, m) ==
    IF sorted = <<>> THEN <<m>>
    ELSE IF StrLess(Lower(m.mix_name), Lower(Head(sorted).mix_name))
         THEN <<m>> \o sorted
         ELSE <<Head(sorted)>> \o InsertByName(Tail(sorted), m)
RECURSIVE SortByName(_)
SortByName(ms) ==
    IF ms = <<>> THEN <<>>
    ELSE InsertByName(SortByName(SubSeq(ms, 1, Len(ms) - 1)), ms[Len(ms)])

\* ------------------------------------------------------------ colour scheme
\* lines 437-480: (value_key, caption_key) of an entry whose value is a string
get_color_entry_keys(entry) == <<Strip(entry.value), Strip(entry.caption)>>

\* lines 1333-1350: key -> entry, the first entry of a key wins
RECURSIVE EntriesByKey(_, _)
EntriesByKey(entries, lookup) ==
    IF entries = <<>> THEN lookup
    ELSE LET e == Head(entries)
             ks == get_color_entry_keys(e)
             l1 == IF ks[1] # <<>> /\ ~\E q \in Range(lookup) : q.key = ks[1]
                   THEN Append(lookup, [key |-> ks[1], entry |-> e]) ELSE lookup
             l2 == IF ks[2] # <<>> /\ ~\E q \in Range(l1) : q.key = ks[2]
                   THEN Append(l1, [key |-> ks[2], entry |-> e]) ELSE l1
         IN EntriesByKey(Tail(entries), l2)
load_color_scheme(sch) == IF sch.exists THEN EntriesByKey(sch.entries, <<>>) ELSE <<>>

\* Mutant: a match without regard to case is taken even when an exact match
\* exists.
AttachCandidates_AnyCase(sch, mix) ==
    LET mapping == load_color_scheme(sch)
        key == Strip(mix.mix_name)
        nocase == {q.entry : q \in {q \in Range(mapping) : Lower(Strip(q.key)) = Lower(key)}}
    IN IF ~sch.exists \/ mapping = <<>> \/ key = <<>> THEN {NoEntry}
       ELSE IF nocase # {} THEN nocase
       ELSE {NoEntry}

\* lines 1357-1378: the entries _attach_color_to_mix can link to a mix.  The
\* exact key wins; otherwise the first key of the dict that matches without
\* case, and the order of a dict is not fixed.
AttachCandidates(sch, mix) ==
    LET mapping == load_color_scheme(sch)
        key == Strip(mix.mix_name)
        exact == {q.entry : q \in {q \in Range(mapping) : q.key = key}}
        nocase == {q.entry : q \in {q \in Range(mapping) : Lower(Strip(q.key)) = Lower(key)}}
    IN IF ~sch.exists \/ mapping = <<>> \/ key = <<>> THEN {NoEntry}
       ELSE IF exact # {} THEN exact
       ELSE IF nocase # {} THEN nocase
       ELSE {NoEntry}

\* lines 1380-1386
attach_color_to_mix(mix, entry) ==
    [mix EXCEPT !.area_color_entry = entry,
                !.area_color_new_dbcolor = NoColor,
                !.area_color_dbcolor = entry.color]

\* All the ways of linking every mix of ms.
RECURSIVE AttachAll(_, _)
AttachAll(sch, ms) ==
    IF ms = <<>> THEN {<<>>}
    ELSE {<<attach_color_to_mix(Head(ms), e)>> \o rest :
             e \in AttachCandidates(sch, Head(ms)), rest \in AttachAll(sch, Tail(ms))}

\* lines 2861-2864
EntryMatches(e, target) ==
    LET t == get_color_entry_keys(target)
        k == get_color_entry_keys(e)
    IN \/ t[1] # <<>> /\ k[1] = t[1]
       \/ t[1] = <<>> /\ t[2] # <<>> /\ k[2] = t[2]
       \/ t[2] # <<>> /\ k[2] = t[2]

\* lines 2857-2872 for the mixes from position k on
RECURSIVE PushColors(_, _, _)
PushColors(entries, ms, k) ==
    IF k > Len(ms) THEN [entries |-> entries, mixes |-> ms]
    ELSE LET mix == ms[k]
             due == mix.area_color_entry # NoEntry /\ mix.area_color_new_dbcolor # NoColor
             hits == {j \in 1..Len(entries) : EntryMatches(entries[j], mix.area_color_entry)}
         IN IF ~due \/ hits = {} THEN PushColors(entries, ms, k + 1)
            ELSE PushColors(
                    [entries EXCEPT ![SetMin(hits)].color = mix.area_color_new_dbcolor],
                    [ms EXCEPT ![k].area_color_dbcolor = mix.area_color_new_dbcolor,
                               ![k].area_color_new_dbcolor = NoColor],
                    k + 1)

\* lines 2830-2878
apply_color_scheme_color_updates(sch, ms) ==
    IF ~sch.exists \/ sch.entries = <<>> THEN [scheme |-> sch, mixes |-> ms]
    ELSE LET r == PushColors(sch.entries, ms, 1)
         IN [scheme |-> [sch EXCEPT !.entries = r.entries], mixes |-> r.mixes]

\* ------------------------------------------------------------ filled regions
FR_PREFIX == <<"b", "m", "_", "p", "l", "a", "n", "t", "i", "n", "g", "_">>
FR_TEMPLATE == FR_PREFIX \o <<"t", "e", "m", "p", "l", "a", "t", "e">>
FORBIDDEN_CHARS == {"<", ">", ":", "\"", "/", "\\", "|", "?", "*"}

\* lines 627-633
sanitize_mix_name_for_type(mix_name) ==
    LET base == IF Strip(mix_name) = <<>> THEN <<"U", "n", "n", "a", "m", "e", "d">>
                ELSE Strip(mix_name)
    IN [k \in 1..Len(base) |-> IF base[k] \in FORBIDDEN_CHARS THEN "_" ELSE base[k]]

\* lines 708-870, in a host view that takes detail items: the type of the mix
\* is found or duplicated from a template, takes the colour, and gets a strip
\* when the view has none of that type.
ensure_filled_region_for_mix(fr, mix_name, color) ==
    LET type_name == FR_PREFIX \o sanitize_mix_name_for_type(mix_name)
        found == \E t \in fr.types : t.name = type_name
    IN IF color = NoColor THEN fr
       ELSE IF ~found /\ fr.types = {} THEN fr
       ELSE [types |-> {t \in fr.types : t.name # type_name}
                          \cup {[name |-> type_name, color |-> color]},
             strips |-> fr.strips \cup {type_name}]

\* lines 2880-2921
RECURSIVE update_filled_region_strips(_, _)
update_filled_region_strips(fr, ms) ==
    IF ms = <<>> THEN fr
    ELSE LET mix == Head(ms)
             col == IF mix.area_color_new_dbcolor # NoColor
                    THEN mix.area_color_new_dbcolor ELSE mix.area_color_dbcolor
         IN update_filled_region_strips(
                ensure_filled_region_for_mix(fr, mix.mix_name, col), Tail(ms))

\* ------------------------------------------------------------ on_apply, piece by piece
\* lines 2939-2990: what on_apply leaves in the parameter p of slot i
ApplySlot(p, kind, mix, num, i) ==
    LET used == i <= num
        space_mm == IF used THEN space_display_to_raw(mix.rows[i].spacing) ELSE <<>>
        f == float(Strip(space_mm))
    IN CASE kind = "S_Code" -> SetValue(p, U(IF used THEN mix.rows[i].code ELSE <<>>))
         [] kind = "S_Pct" ->
              SetValue(p, U(IF used THEN pct_display_to_raw(mix.rows[i].pct) ELSE <<>>))
         [] kind = "S_Bot" -> SetValue(p, U(IF used THEN mix.rows[i].bot ELSE <<>>))
         [] kind = "S_Com" -> SetValue(p, U(IF used THEN mix.rows[i].com ELSE <<>>))
         [] kind = "S_Grade" -> SetValue(p, U(IF used THEN mix.rows[i].grade ELSE <<>>))
         [] kind = "S_Space" ->
              IF p.st = "Double"
              THEN IF space_mm = <<>> THEN DoubleParam(TRUE, 0)
                   ELSE IF f.ok THEN DoubleParam(TRUE, f.v)
                   ELSE p
              ELSE SetValue(p, U(space_mm))

\* lines 2932-2990 for one mix: every parameter of the family is written once
ApplyMix(element, mix) ==
    LET num == IF Len(mix.rows) > MAX_SPECIES THEN MAX_SPECIES ELSE Len(mix.rows)
    IN [n \in DOMAIN element |->
           IF n = PARAM_MIX_NAME THEN SetValue(element[n], U(mix.mix_name))
           ELSE IF n = PARAM_NUM_SPECIES THEN SetValue(element[n], I(num))
           ELSE ApplySlot(element[n], n[1], mix, num, n[2])]

\* lines 2931-2990
RECURSIVE ApplyMixes(_, _)
ApplyMixes(es, ms) ==
    IF ms = <<>> THEN es
    ELSE ApplyMixes([es EXCEPT ![Head(ms).element] = ApplyMix(@, Head(ms))], Tail(ms))

\* lines 2992-3006
RECURSIVE RenameAreas(_, _)
RenameAreas(as, renames) ==
    IF renames = <<>> THEN as
    ELSE LET old_name == Strip(Head(renames)[1])
             new_name == Strip(Head(renames)[2])
         IN IF old_name = <<>> \/ new_name = <<>> \/ old_name = new_name
            THEN RenameAreas(as, Tail(renames))
            ELSE RenameAreas(
                    {IF a.named /\ a.name # <<>> /\ Strip(a.name) = old_name
                     THEN [a EXCEPT !.name = new_name] ELSE a : a \in as},
                    Tail(renames))

\* lines 1441-1447
record_mix_rename(renames, old_name, new_name) ==
    IF Strip(old_name) = <<>> \/ Strip(new_name) = <<>> \/ Strip(old_name) = Strip(new_name)
    THEN renames
    ELSE Append(renames, <<Strip(old_name), Strip(new_name)>>)

\* lines 1449-1463
RECURSIVE CopyName(_, _, _)
CopyName(base, existing, i) ==
    LET candidate == IF i = 1 THEN base \o <<" ", "C", "o", "p", "y">>
                     ELSE base \o <<" ", "C", "o", "p", "y", " ">> \o IntStr(i)
    IN IF candidate \notin existing THEN candidate ELSE CopyName(base, existing, i + 1)
generate_copy_name(ms, base_name) ==
    CopyName(IF Strip(base_name) = <<>> THEN UNNAMED_MIX ELSE Strip(base_name),
             {Strip(m.mix_name) : m \in Range(ms)}, 1)

\* ------------------------------------------------------------ the documents the editor opens
SlotKinds == {"S_Code", "S_Pct", "S_Space", "S_Bot", "S_Com", "S_Grade"}
ParamNames ==
    {PARAM_MIX_NAME, PARAM_NUM_SPECIES} \cup (SlotKinds \X (1..MAX_SPECIES))

Slot(code, pct, space, bot, com, grade) ==
    [code |-> code, pct |-> pct, space |-> space, bot |-> bot, com |-> com, grade |-> grade]

\* An instance of the bm_massed_mix family.  Mix Name and the slot texts are
\* String parameters, Num_Species is an Integer, and the spacing of a slot is a
\* String or a Double (a length), as on_apply provides for both.
Instance(hasName, name, num, slots, spaceSt) ==
    [n \in ParamNames |->
        LET i == n[2]
            set == i >= 1 /\ i <= Len(slots)
        IN CASE n = PARAM_MIX_NAME -> StringParam(hasName, name)
             [] n = PARAM_NUM_SPECIES -> IntegerParam(num)
             [] n[1] = "S_Code" -> StringParam(set, IF set THEN slots[i].code ELSE <<>>)
             [] n[1] = "S_Pct" -> StringParam(set, IF set THEN slots[i].pct ELSE <<>>)
             [] n[1] = "S_Bot" -> StringParam(set, IF set THEN slots[i].bot ELSE <<>>)
             [] n[1] = "S_Com" -> StringParam(set, IF set THEN slots[i].com ELSE <<>>)
             [] n[1] = "S_Grade" -> StringParam(set, IF set THEN slots[i].grade ELSE <<>>)
             [] n[1] = "S_Space" ->
                  IF spaceSt = "Double"
                  THEN DoubleParam(set, IF set THEN float(slots[i].space).v ELSE 0)
                  ELSE StringParam(set, IF set THEN slots[i].space ELSE <<>>)]

\* A freshly placed instance: no name, no species.
NewInstance(spaceSt) == Instance(FALSE, <<>>, 0, <<>>, spaceSt)

MIX_A == <<"M", "i", "x", " ", "A">>
MIX_B == <<"m", "i", "x", " ", "b">>
MIX_C == <<"M", "i", "x", " ", "C">>

\* Mix A: two species (50 % and 1 %) and the remains of a third in slot 3.
\* mix b: one species at 100 %.
DocumentA(spaceSt) ==
    << Instance(TRUE, MIX_A, 2,
                << Slot(<<"L", "o">>, <<"0", ".", "5">>, <<"1", "5", "0", "0">>, <<"L", "o", "m", "a", "n", "d", "r", "a">>, <<"M", "a", "t", " ", "r", "u", "s", "h">>, <<"T">>),
                   Slot(<<"C", "a">>, <<"0", ".", "0", "1">>, <<"5", "0", "0">>, <<"C", "a", "r", "e", "x">>, <<"S", "e", "d", "g", "e">>, <<"T">>),
                   Slot(<<"Z", "z">>, <<"0", ".", "2">>, <<"1", "0", "0", "0">>, <<"Z", "o", "y", "s", "i", "a">>, <<"G", "r", "a", "s", "s">>, <<"P">>) >>,
                spaceSt),
       Instance(TRUE, MIX_B, 1,
                << Slot(<<"D", "i">>, <<"1">>, <<"2", "5", "0", ".", "4">>, <<"D", "i", "a", "n", "e", "l", "l", "a">>, <<"F", "l", "a", "x", " ", "l", "i", "l", "y">>, <<"T">>) >>,
                spaceSt) >>

\* One unnamed mix with every slot in use and a Num_Species beyond the slots.
DocumentFull(spaceSt) ==
    << Instance(FALSE, <<>>, MAX_SPECIES + 1,
                [i \in 1..MAX_SPECIES |->
                    Slot(<<"P">> \o IntStr(i), <<"0", ".", "0", "5">>, <<"1", "0", "0", "0">>, <<"P", "o", "a">>, <<"T", "u", "s", "s", "o", "c", "k">>, <<"T">>)],
                spaceSt) >>

\* A document in which no bm_massed_mix annotation is placed.
DocumentEmpty == <<>>
Documents(spaceSt) == {DocumentA(spaceSt), DocumentFull(spaceSt), DocumentEmpty}
SpaceStorageTypes == {"String", "Double"}

TheScheme ==
    [exists |-> TRUE,
     entries |-> << [value |-> MIX_A, caption |-> MIX_A, color |-> "red"],
                    [value |-> <<"M", "I", "X", " ", "B">>, caption |-> <<"M", "I", "X", " ", "B">>, color |-> "green"] >>]
\* A scheme whose entries were given one caption: the entry of another area
\* name ("mix a") stands before the entry of "Mix A", and both are captioned
\* "Native".
MIX_a == <<"m", "i", "x", " ", "a">>
CAPTION_N == <<"N", "a", "t", "i", "v", "e">>
SchemeSharedCaption ==
    [exists |-> TRUE,
     entries |-> << [value |-> MIX_a, caption |-> CAPTION_N, color |-> "grey"],
                    [value |-> MIX_A, caption |-> CAPTION_N, color |-> "red"] >>]
MixAreas ==
    { [run |-> 0, pt |-> Pt(500, 500), named |-> TRUE, name |-> MIX_A],
      [run |-> 0, pt |-> Pt(2500, 500), named |-> TRUE, name |-> MIX_A],
      [run |-> 0, pt |-> Pt(500, 2500), named |-> TRUE, name |-> MIX_B],
      [run |-> 0, pt |-> Pt(2500, 2500), named |-> FALSE, name |-> <<>>] }

\* What the editor is opened on: each document with the scheme of distinct
\* captions, and the two-mix document with the scheme of shared captions.
MixScenarios ==
    {<<d, TheScheme>> : d \in UNION {Documents(spaceSt) : spaceSt \in SpaceStorageTypes}}
    \cup {<<DocumentA("String"), SchemeSharedCaption>>}

\* lines 1216-1242
load_mixes(es) == SortByName([k \in 1..Len(es) |-> MixModel(k, es[k])])

\* ------------------------------------------------------------ what the user can do
Fields == {"code", "pct", "spacing", "bot", "com", "grade"}
CellTexts(field) ==
    CASE field = "pct" -> {<<"0", ".", "0", "1">>, <<"1", "5", "0", "%">>}
      [] field = "spacing" -> {<<"1", ".", "5", "m", "m">>}
      [] OTHER -> {<<"X", "x">>}
EditRows == {1, 2}
NameTexts == {<<>>, MIX_C}
PickedColors == {NoColor, "blue"}
RowData(code, spread, bot, com, percent, grade) ==
    [Code |-> code, SpreadMM |-> spread, Botanical |-> bot, Common |-> com,
     Percent |-> percent, Grade |-> grade]
LibrarySelections ==
    { <<>>,
      << RowData(<<"F", "i">>, <<"3", "0", "0", "0">>, <<"F", "i", "c", "i", "n", "i", "a">>, <<"K", "n", "o", "b", "b", "y">>, <<"0", ".", "5">>, <<"T">>),
         RowData(<<"A", "u">>, <<>>, <<"A", "u", "s", "t", "r", "o">>, <<"W", "a", "l", "l", "a", "b", "y">>, <<"0", ".", "0", "0", "5">>, <<>>) >> }
PlaceHosts == {"ok", "no_symbol", "raises"}
ApplyFaults == {"none", "start", "rename", "commit"}

\* ------------------------------------------------------------ handlers of the window
boundaryRest == <<planting, lines, styleExists, sketchPlane, txn, saved,
                  pc, run, cur, call, dialog, offset>>
docVars == <<elems, scheme, frTypes, strips, areas>>
Cell(m, r, field) == [mix |-> m, row |-> r, field |-> field]
Ran(op, outcome) == [op |-> op, outcome |-> outcome]

\* lines 2413-2434: the text of a cell changes; the cell has the keyboard focus
on_cell_changed(m, r, field, text) ==
    /\ edits < MaxEdits
    /\ m \in 1..Len(mixes)
    /\ r \in 1..Len(mixes[m].rows)
    /\ focus \in {NoFocus, Cell(m, r, field)}
    /\ mixes' = [mixes EXCEPT ![m].rows[r][field] = text, ![m].dirty = TRUE]
    /\ focus' = IF field \in {"pct", "spacing"} THEN Cell(m, r, field) ELSE NoFocus
    /\ edits' = edits + 1
    /\ last' = Ran("on_cell_changed", "ok")
    /\ UNCHANGED <<docVars, area_renames, boundaryRest>>

\* lines 2450-2469: the focus leaves a percent cell
on_pct_lost_focus ==
    /\ focus.field = "pct"
    /\ LET text == mixes[focus.mix].rows[focus.row].pct
           raw == pct_display_to_raw(text)
           display == pct_raw_to_display(raw)
       IN mixes' = [mixes EXCEPT ![focus.mix].rows[focus.row].pct =
                                     IF raw = <<>> THEN <<>> ELSE display]
    /\ focus' = NoFocus
    /\ last' = Ran("on_pct_lost_focus", "ok")
    /\ UNCHANGED <<docVars, area_renames, edits, boundaryRest>>

\* lines 2471-2488: the focus leaves a spacing cell
on_space_lost_focus ==
    /\ focus.field = "spacing"
    /\ LET text == mixes[focus.mix].rows[focus.row].spacing
           raw == space_display_to_raw(text)
           display == space_raw_to_display(raw)
       IN mixes' = [mixes EXCEPT ![focus.mix].rows[focus.row].spacing =
                                     IF raw = <<>> THEN <<>> ELSE display]
    /\ focus' = NoFocus
    /\ last' = Ran("on_space_lost_focus", "ok")
    /\ UNCHANGED <<docVars, area_renames, edits, boundaryRest>>

\* lines 2490-2496
on_remove_row(m, r) ==
    /\ edits < MaxEdits
    /\ focus = NoFocus
    /\ m \in 1..Len(mixes)
    /\ r \in 1..Len(mixes[m].rows)
    /\ mixes' = [mixes EXCEPT ![m] = remove_row_at(@, r)]
    /\ edits' = edits + 1
    /\ last' = Ran("on_remove_row", "ok")
    /\ UNCHANGED <<docVars, area_renames, focus, boundaryRest>>

\* lines 2498-2506
on_add_row(m) ==
    /\ edits < MaxEdits
    /\ focus = NoFocus
    /\ m \in 1..Len(mixes)
    /\ mixes' = [mixes EXCEPT ![m] = add_row(@)]
    /\ edits' = edits + 1
    /\ last' = Ran("on_add_row",
                   IF Len(mixes[m].rows) >= MAX_SPECIES THEN "alert" ELSE "ok")
    /\ UNCHANGED <<docVars, area_renames, focus, boundaryRest>>

\* lines 2612-2657: one row per plant picked in the library
RECURSIVE AddSelected(_, _)
AddSelected(mix, selected) ==
    IF selected = <<>> \/ Len(mix.rows) >= MAX_SPECIES THEN mix
    ELSE LET d == Head(selected)
             m1 == add_row(mix)
             k == Len(m1.rows)
             row == [m1.rows[k] EXCEPT
                        !.code = d.Code,
                        !.bot = d.Botanical,
                        !.com = d.Common,
                        !.spacing = IF d.SpreadMM = <<>> THEN <<>>
                                    ELSE space_raw_to_display(d.SpreadMM),
                        !.pct = IF d.Percent = <<>> THEN <<>>
                                ELSE pct_raw_to_display(d.Percent),
                        !.grade = d.Grade]
         IN AddSelected([m1 EXCEPT !.rows[k] = row], Tail(selected))

\* lines 2508-2661
on_add_row_from_library(m, selected) ==
    /\ edits < MaxEdits
    /\ focus = NoFocus
    /\ m \in 1..Len(mixes)
    /\ LET full == MAX_SPECIES - Len(mixes[m].rows) <= 0
       IN /\ mixes' = IF full THEN mixes ELSE [mixes EXCEPT ![m] = AddSelected(@, selected)]
          /\ last' = Ran("on_add_row_from_library", IF full THEN "alert" ELSE "ok")
    /\ edits' = edits + 1
    /\ UNCHANGED <<docVars, area_renames, focus, boundaryRest>>

\* lines 2185-2223: the inline rename of a mix header ends
finish_edit(m, text_val, commit) ==
    /\ edits < MaxEdits
    /\ focus = NoFocus
    /\ m \in 1..Len(mixes)
    /\ LET old_name == mixes[m].mix_name
           new_name == IF text_val = <<>> THEN UNNAMED_MIX ELSE text_val
       IN IF commit
          THEN /\ area_renames' = IF old_name # new_name
                                  THEN record_mix_rename(area_renames, old_name, new_name)
                                  ELSE area_renames
               /\ mixes' = SortByName([mixes EXCEPT ![m].mix_name = new_name,
                                                    ![m].dirty = TRUE])
          ELSE UNCHANGED <<area_renames, mixes>>
    /\ edits' = edits + 1
    /\ last' = Ran("finish_edit", IF commit THEN "ok" ELSE "cancel")
    /\ UNCHANGED <<docVars, focus, boundaryRest>>

\* lines 2314-2344
on_area_color_click(m, picked) ==
    /\ edits < MaxEdits
    /\ focus = NoFocus
    /\ m \in 1..Len(mixes)
    /\ LET linked == mixes[m].area_color_entry # NoEntry /\ scheme.exists
       IN /\ mixes' = IF linked /\ picked # NoColor
                      THEN [mixes EXCEPT ![m].area_color_new_dbcolor = picked,
                                         ![m].dirty = TRUE]
                      ELSE mixes
          /\ last' = Ran("on_area_color_click",
                         IF ~linked THEN "alert" ELSE IF picked = NoColor THEN "cancel" ELSE "ok")
    /\ edits' = edits + 1
    /\ UNCHANGED <<docVars, area_renames, focus, boundaryRest>>

\* The storage type the family gives the spacing parameters.
FamilySpaceStorage ==
    IF elems = <<>> THEN "String" ELSE elems[1][PARAM_SPECIES_SPACE_TEMPLATE(1)].st

\* lines 2664-2731
on_create_new_mix(host) ==
    /\ edits < MaxEdits
    /\ focus = NoFocus
    /\ IF host = "ok"
       THEN LET new_inst == set_param(NewInstance(FamilySpaceStorage), PARAM_NUM_SPECIES, I(0))
                new_mix == [MixModel(Len(elems) + 1, new_inst) EXCEPT
                                !.num_species = 0, !.rows = <<>>]
            IN /\ elems' = Append(elems, new_inst)
               /\ \E e \in AttachCandidates(scheme, new_mix) :
                     mixes' = Append(mixes, attach_color_to_mix(new_mix, e))
       ELSE UNCHANGED <<elems, mixes>>
    /\ edits' = edits + 1
    /\ last' = Ran("on_create_new_mix",
                   IF host = "ok" THEN "commit" ELSE IF host = "raises" THEN "rollback" ELSE "alert")
    /\ UNCHANGED <<scheme, frTypes, strips, areas, area_renames, focus, boundaryRest>>

\* lines 2790-2799: copy_param_between_elements for the six parameters of every slot
CopySlots(src, dst) ==
    [n \in DOMAIN dst |->
        IF n[1] \in SlotKinds /\ n \in DOMAIN src THEN CopyValue(src[n], dst[n]) ELSE dst[n]]

\* lines 2733-2828
on_duplicate_mix(m, host) ==
    /\ edits < MaxEdits
    /\ focus = NoFocus
    /\ m \in 1..Len(mixes)
    /\ IF host = "ok"
       THEN LET mix == mixes[m]
                copy_name == generate_copy_name(mixes, mix.mix_name)
                src_num == IF mix.num_species < 0 THEN 0
                           ELSE IF mix.num_species > MAX_SPECIES THEN MAX_SPECIES
                           ELSE mix.num_species
                e1 == set_param(NewInstance(FamilySpaceStorage), PARAM_MIX_NAME, U(copy_name))
                e2 == set_param(e1, PARAM_NUM_SPECIES, I(src_num))
                new_inst == CopySlots(elems[mix.element], e2)
                new_mix == MixModel(Len(elems) + 1, new_inst)
            IN /\ elems' = Append(elems, new_inst)
               /\ \E e \in AttachCandidates(scheme, new_mix) :
                     mixes' = Append(mixes, attach_color_to_mix(new_mix, e))
       ELSE UNCHANGED <<elems, mixes>>
    /\ edits' = edits + 1
    /\ last' = Ran("on_duplicate_mix",
                   IF host = "ok" THEN "commit" ELSE IF host = "raises" THEN "rollback" ELSE "alert")
    /\ UNCHANGED <<scheme, frTypes, strips, areas, area_renames, focus, boundaryRest>>

\* The document as on_apply's Transaction sees it.
ApplyDoc == [elems |-> elems, areas |-> areas, scheme |-> scheme,
             frTypes |-> frTypes, strips |-> strips]
DocBecomes(d) ==
    /\ elems' = d.elems
    /\ areas' = d.areas
    /\ scheme' = d.scheme
    /\ frTypes' = d.frTypes
    /\ strips' = d.strips

\* Mutant: what was written before the exception stays in the document.
RollBackDoc_KeepsWrites(before, written) == written

\* lines 3018-3022: t.RollBack() gives back the document of t.Start().
RollBackDoc(before, written) == before

\* lines 2924-3029.  fault: where the host raises, if it does ("start": at
\* t.Start(); "rename": in the Area collector of the renames, after the
\* parameters were written; "commit": at t.Commit(), after every write).  A
\* RollBack takes back what was written to the document, not what the handler
\* did to its own objects.  Without mixes the handler returns at once.
on_apply(fault) ==
    /\ focus = NoFocus
    /\ fault = "rename" => area_renames # <<>>
    /\ IF mixes = <<>>
       THEN /\ last' = Ran("on_apply", "return")
            /\ UNCHANGED <<docVars, mixes, area_renames>>
       ELSE LET col == apply_color_scheme_color_updates(scheme, mixes)
                fr == update_filled_region_strips([types |-> frTypes, strips |-> strips],
                                                  col.mixes)
                params == [ApplyDoc EXCEPT !.elems = ApplyMixes(elems, mixes)]
                written == [params EXCEPT !.areas = RenameAreas(areas, area_renames),
                                          !.scheme = col.scheme,
                                          !.frTypes = fr.types,
                                          !.strips = fr.strips]
            IN CASE fault = "start" ->
                      /\ DocBecomes(ApplyDoc)
                      /\ last' = Ran("on_apply", "rollback")
                      /\ UNCHANGED <<mixes, area_renames>>
                 [] fault = "rename" ->
                      /\ DocBecomes(RollBackDoc(ApplyDoc, params))
                      /\ last' = Ran("on_apply", "rollback")
                      /\ UNCHANGED <<mixes, area_renames>>
                 [] fault = "commit" ->
                      /\ DocBecomes(RollBackDoc(ApplyDoc, written))
                      /\ mixes' = col.mixes
                      /\ area_renames' = <<>>
                      /\ last' = Ran("on_apply", "rollback")
                 [] OTHER ->
                      /\ DocBecomes(written)
                      /\ mixes' = col.mixes
                      /\ area_renames' = <<>>
                      /\ last' = Ran("on_apply", "commit")
    /\ UNCHANGED <<focus, edits, boundaryRest>>

\* MixWindowController.__init__ (lines 1161-1192) on a document with mixes
InitMix ==
    /\ \E sc \in MixScenarios : elems = sc[1] /\ scheme = sc[2]
    /\ frTypes = {[name |-> FR_TEMPLATE, color |-> "black"]}
    /\ strips = {}
    /\ mixes \in AttachAll(scheme, load_mixes(elems))
    /\ area_renames = <<>>
    /\ focus = NoFocus
    /\ edits = 0
    /\ last = NoLast
    /\ planting = Plants({})
    /\ lines = {}
    /\ areas = MixAreas
    /\ styleExists = FALSE
    /\ sketchPlane = FALSE
    /\ txn = "none"
    /\ saved = NoDoc
    /\ pc = "idle"
    /\ run = 0
    /\ cur = NoCur
    /\ call = NoCall
    /\ dialog = "none"
    /\ offset = NoOffset

NextMix ==
    \/ \E m \in 1..Len(mixes), r \in EditRows, field \in Fields :
          \E text \in CellTexts(field) : on_cell_changed(m, r, field, text)
    \/ on_pct_lost_focus
    \/ on_space_lost_focus
    \/ \E m \in 1..Len(mixes), r \in EditRows : on_remove_row(m, r)
    \/ \E m \in 1..Len(mixes) : on_add_row(m)
    \/ \E m \in 1..Len(mixes), selected \in LibrarySelections :
          on_add_row_from_library(m, selected)
    \/ \E m \in 1..Len(mixes), text_val \in NameTexts, commit \in BOOLEAN :
          finish_edit(m, text_val, commit)
    \/ \E m \in 1..Len(mixes), picked \in PickedColors : on_area_color_click(m, picked)
    \/ \E host \in PlaceHosts : on_create_new_mix(host)
    \/ \E m \in 1..Len(mixes), host \in PlaceHosts : on_duplicate_mix(m, host)
    \/ \E fault \in ApplyFaults : on_apply(fault)

SpecMix == InitMix /\ [][NextMix]_vars

\* ------------------------------------------------------------ offset_loop_inwards alone
\* Rectangular loops of either orientation, from a loop too small to be
\* offset inwards to a floor-sized one, and the distances of the offset.
OffsetSizes == {8, 20, 3000}
OffsetDists == {0, 5, 10}
OffsetLoops ==
    {RectLoop(Box(0, w, 0, h), ccw) : w \in OffsetSizes, h \in OffsetSizes, ccw \in BOOLEAN}

InitOffset ==
    /\ offset \in {[NoOffset EXCEPT !.cl = cl, !.dist = d] :
                      cl \in OffsetLoops, d \in OffsetDists}
    /\ planting = Plants({})
    /\ lines = {}
    /\ areas = {}
    /\ styleExists = FALSE
    /\ sketchPlane = FALSE
    /\ txn = "none"
    /\ saved = NoDoc
    /\ pc = "idle"
    /\ run = 0
    /\ cur = NoCur
    /\ call = NoCall
    /\ dialog = "none"
    /\ EditorClosed

\* One call of offset_loop_inwards; plusOk and minusOk are the host's verdicts
\* on the two CreateViaOffset calls (FALSE: the call raises).
OffsetLoop(plusOk, minusOk) ==
    /\ ~offset.called
    /\ offset' = [offset EXCEPT
                     !.called = TRUE, !.plusOk = plusOk, !.minusOk = minusOk,
                     !.result = offset_loop_inwards(offset.cl, offset.dist, plusOk, minusOk)]
    /\ UNCHANGED <<boundaryVars, mixVars>>

NextOffset == \E plusOk \in BOOLEAN, minusOk \in BOOLEAN : OffsetLoop(plusOk, minusOk)

SpecOffset == InitOffset /\ [][NextOffset]_vars

\* ------------------------------------------------------------ claims: script.py
\* on_apply ran last and committed.
Applied == last = Ran("on_apply", "commit")

\* A parameter that holds nothing: no text, or the number 0.
Blanked(p) ==
    CASE p.st = "String" -> p.s = <<>>
      [] p.st = "Integer" -> p.i = 0
      [] p.st = "Double" -> p.d = 0
      [] OTHER -> FALSE

\* What the annotation shows in slot i to whoever opens it.
ShownSlot(element, i) == load_rows(element, i)[i]

\* The parameters of slot i hold the six values of the row: read back, they
\* show what the row shows (a Double holds an empty spacing as 0).
SlotHoldsRow(element, i, row) ==
    LET shown == ShownSlot(element, i)
    IN /\ shown.code = row.code
       /\ shown.pct = row.pct
       /\ \/ shown.spacing = row.spacing
          \/ row.spacing = <<>> /\ Blanked(element[PARAM_SPECIES_SPACE_TEMPLATE(i)])
       /\ shown.bot = row.bot
       /\ shown.com = row.com
       /\ shown.grade = row.grade

SlotBlanked(element, i) == \A kind \in SlotKinds : Blanked(element[<<kind, i>>])

\* C10 (as claimed): after a successful on_apply, for every mix, Mix Name is
\* the in-memory name, Num_Species is the number n of in-memory rows, the
\* parameters of slot i <= n hold row i's code, percent, spacing, botanical
\* name, common name and grade, and every slot n+1..MAX_SPECIES is blanked.
C10_ApplyWritesRowsToAnnotation ==
    Applied =>
        \A k \in 1..Len(mixes) :
            LET mix == mixes[k]
                element == elems[mix.element]
                n == Len(mix.rows)
            IN /\ get_param(element, PARAM_MIX_NAME) = mix.mix_name
               /\ get_param(element, PARAM_NUM_SPECIES) = IntStr(n)
               /\ \A i \in 1..n : SlotHoldsRow(element, i, mix.rows[i])
               /\ \A i \in (n + 1)..MAX_SPECIES : SlotBlanked(element, i)

\* ------------------------------------------------------------ claims: colours
\* The mix is linked to an entry and a new colour was picked for it.
Pending(mix) == mix.area_color_entry # NoEntry /\ mix.area_color_new_dbcolor # NoColor

\* e is the scheme's entry the mix is linked to (a scheme holds one entry per
\* value).
IsEntryOf(e, mix) ==
    /\ mix.area_color_entry # NoEntry
    /\ e.value = mix.area_color_entry.value
    /\ e.caption = mix.area_color_entry.caption

\* The step is an Apply that committed.
ApplyCommits == last' = Ran("on_apply", "commit")

\* C11 (as claimed): on Apply, for each mix that is linked to a colour scheme
\* entry and has a pending new colour, that mix's entry and no other entry of
\* the scheme receives the new colour, the mix's pending colour is cleared and
\* its current colour is the new colour; the entries of mixes with no pending
\* colour are unchanged.
C11_ApplyPushesPendingColours ==
    [][ ApplyCommits =>
          /\ Len(scheme'.entries) = Len(scheme.entries)
          /\ \A k \in 1..Len(mixes) :
                Pending(mixes[k]) =>
                   /\ \E j \in 1..Len(scheme.entries) : IsEntryOf(scheme.entries[j], mixes[k])
                   /\ \A j \in 1..Len(scheme.entries) :
                         IsEntryOf(scheme.entries[j], mixes[k]) =>
                            scheme'.entries[j].color = mixes[k].area_color_new_dbcolor
                   /\ mixes'[k].area_color_new_dbcolor = NoColor
                   /\ mixes'[k].area_color_dbcolor = mixes[k].area_color_new_dbcolor
          /\ \A j \in 1..Len(scheme.entries) :
                (~\E k \in 1..Len(mixes) :
                     Pending(mixes[k]) /\ IsEntryOf(scheme.entries[j], mixes[k]))
                   => scheme'.entries[j] = scheme.entries[j]
      ]_vars

\* The positions of the scheme's entries whose value key or caption is the
\* key, exactly or without regard to case.
ExactEntries(sch, key) ==
    {j \in 1..Len(sch.entries) :
        key \in Range(get_color_entry_keys(sch.entries[j]))}
NoCaseEntries(sch, key) ==
    {j \in 1..Len(sch.entries) :
        \E q \in Range(get_color_entry_keys(sch.entries[j])) :
            q # <<>> /\ Lower(q) = Lower(key)}

\* The mix is linked as its name asks: to an entry that matches the stripped
\* name exactly; if there is none, to one that matches it without regard to
\* case; and to no entry, with no colour, when nothing matches.
LinkedByName(mix, sch) ==
    LET key == Strip(mix.mix_name)
        exact == ExactEntries(sch, key)
        nocase == NoCaseEntries(sch, key)
        linked(S) == \E j \in S : /\ mix.area_color_entry = sch.entries[j]
                                  /\ mix.area_color_dbcolor = sch.entries[j].color
    IN /\ mix.area_color_new_dbcolor = NoColor
       /\ IF key # <<>> /\ exact # {} THEN linked(exact)
          ELSE IF key # <<>> /\ nocase # {} THEN linked(nocase)
          ELSE mix.area_color_entry = NoEntry /\ mix.area_color_dbcolor = NoColor

\* The step placed a new annotation (a new or a duplicated mix).
MixAdded == /\ last'.op \in {"on_create_new_mix", "on_duplicate_mix"}
            /\ last'.outcome = "commit"

\* C12: _attach_color_to_mix links a mix to the entry whose value key or
\* caption equals the stripped mix name exactly, and to a case-insensitive
\* match only when no exact match exists; when nothing matches the mix has no
\* entry and no colour, and a click on the swatch of such a mix changes
\* neither its pending colour nor its dirty flag.  (A mix is attached when the
\* window loads and when it is created or duplicated.)
C12_AttachLinksByNameAndUnlinkedClickIsInert ==
    /\ \A k \in 1..Len(mixes) : LinkedByName(mixes[k], scheme)
    /\ [][ /\ MixAdded => LinkedByName(mixes'[Len(mixes')], scheme')
           /\ last'.op = "on_area_color_click" =>
                 \A k \in 1..Len(mixes) :
                    mixes[k].area_color_entry = NoEntry =>
                       /\ mixes'[k].area_color_new_dbcolor = mixes[k].area_color_new_dbcolor
                       /\ mixes'[k].dirty = mixes[k].dirty
                       /\ last'.outcome = "alert" => mixes' = mixes
         ]_vars

\* C12 witness: the swatch of a mix that no entry matches was clicked, in a
\* window where another mix is linked to its exact entry although an earlier
\* entry matches its name without regard to case.
C12_Witness ==
    /\ last = Ran("on_area_color_click", "alert")
    /\ \E k \in 1..Len(mixes) :
          /\ mixes[k].area_color_entry = NoEntry
          /\ NoCaseEntries(scheme, Strip(mixes[k].mix_name)) = {}
    /\ \E k \in 1..Len(mixes) :
          LET key == Strip(mixes[k].mix_name)
          IN /\ mixes[k].area_color_entry # NoEntry
             /\ get_color_entry_keys(mixes[k].area_color_entry)[1] = key
             /\ \E j \in NoCaseEntries(scheme, key) : j \notin ExactEntries(scheme, key)

\* ------------------------------------------------------------ claims: offset_loop_inwards
\* The two offsets the call asked the host for.
PlusOffset == CreateViaOffset(offset.cl, offset.dist, offset.plusOk)
MinusOffset == CreateViaOffset(offset.cl, -offset.dist, offset.minusOk)

\* Average distance of the samples of a loop from the centroid of the samples
\* of the original loop.
RadiusAboutOriginal(loop) ==
    AverageRadius(loop, ComputeCentroid(SamplePoints(offset.cl, SAMPLES_PER_CURVE)),
                  SAMPLES_PER_CURVE)

\* C13: offset_loop_inwards returns the original loop when both the +offset
\* and the -offset fail, the only candidate when exactly one succeeds, and
\* otherwise the candidate whose average sampled distance from the original
\* loop's centroid is smaller, the +offset candidate on a tie.
C13_OffsetPicksSmallerRadius ==
    offset.called =>
       /\ (~PlusOffset.ok /\ ~MinusOffset.ok) => offset.result = offset.cl
       /\ (PlusOffset.ok /\ ~MinusOffset.ok) => offset.result = PlusOffset.loop
       /\ (~PlusOffset.ok /\ MinusOffset.ok) => offset.result = MinusOffset.loop
       /\ (PlusOffset.ok /\ MinusOffset.ok) =>
             /\ offset.result \in {PlusOffset.loop, MinusOffset.loop}
             /\ \A other \in {PlusOffset.loop, MinusOffset.loop} :
                   RadiusAboutOriginal(offset.result) <= RadiusAboutOriginal(other)
             /\ RadiusAboutOriginal(PlusOffset.loop) = RadiusAboutOriginal(MinusOffset.loop)
                   => offset.result = PlusOffset.loop

\* C13 witness: both offsets succeeded, the -offset candidate lies inside the
\* +offset candidate and was returned.
C13_Witness ==
    /\ offset.called
    /\ PlusOffset.ok /\ MinusOffset.ok
    /\ RadiusAboutOriginal(MinusOffset.loop) < RadiusAboutOriginal(PlusOffset.loop)
    /\ offset.result = MinusOffset.loop
    /\ offset.result # offset.cl

\* ------------------------------------------------------------ claims: transactions
\* The step ends the open transaction of Boundary.main.
EndsTransaction == txn = "open" /\ txn' = "none"
EndedBy(how) == call'.outcome = how /\ call.outcome # how

\* C14: every transaction started by Boundary.main is ended exactly once, by
\* Commit or by RollBack, and none is left open (a transaction is open exactly
\* while main has not returned); an exception escaping
\* boundary creation rolls back every change of the run and shows a failure
\* dialog, while a failure only in creating or naming the Area is logged and
\* the boundary changes are still committed.
C14_TransactionEndsOnce ==
    /\ [](txn = "none" <=> pc = "idle")
    /\ [][ /\ (txn' # txn /\ ~EndsTransaction) =>
                 (txn = "none" /\ txn' = "open" /\ call'.outcome = "running")
           /\ EndsTransaction =>
                 /\ call.outcome = "running"
                 /\ EndedBy("commit") \/ EndedBy("rollback")
           /\ (EndedBy("commit") \/ EndedBy("rollback")) => EndsTransaction
           /\ pc = "failed" =>
                 /\ EndedBy("rollback")
                 /\ Doc' = saved
                 /\ dialog' = "Failed to create boundaries and Area"
           /\ EndedBy("rollback") => pc = "failed"
           /\ pc = "area" =>
                 /\ pc' = "commit"
                 /\ lines' = lines /\ styleExists' = styleExists
                 /\ cur'.area_host # "ok" => dialog' = dialog
           /\ pc = "commit" =>
                 /\ EndedBy("commit")
                 /\ lines' = lines /\ areas' = areas /\ styleExists' = styleExists
                 /\ dialog' = dialog
         ]_vars

\* C14 witness: a run deleted earlier boundaries of the floor and drew part of
\* the outline, then failed and was rolled back: the earlier lines are there
\* again, none of the run's lines is, and the failure dialog is shown.
C14_Witness ==
    /\ call.outcome = "rollback"
    /\ txn = "none"
    /\ dialog = "Failed to create boundaries and Area"
    /\ \E l \in lines : l.kind = "old" /\ l.style = MIX_BOUNDARY_STYLE_NAME
                        /\ l \in ids_to_delete(lines, 0, 3000, 0, 3000, MIX_BOUNDARY_STYLE_NAME)
    /\ ~\E l \in lines : l.run = run

\* The step is a press of Apply.
ApplyPressed == last'.op = "on_apply"

\* C15: on_apply starts no transaction when there are no mixes; otherwise its
\* transaction ends exactly once, with Commit, or with RollBack followed by an
\* alert when any step raises, and after a RollBack none of the parameter,
\* Area name, colour scheme or filled region changes of that Apply remain in
\* the document.
C15_ApplyTransactionEndsOnce ==
    [][ ApplyPressed =>
          /\ mixes = <<>> => last'.outcome = "return" /\ ApplyDoc' = ApplyDoc
          /\ mixes # <<>> => last'.outcome \in {"commit", "rollback"}
          /\ last'.outcome = "rollback" =>
                /\ elems' = elems
                /\ areas' = areas
                /\ scheme' = scheme
                /\ frTypes' = frTypes /\ strips' = strips
      ]_vars

\* C15 witness: an Apply with a renamed mix raised at t.Commit(), after every
\* write: the rename was consumed, the annotation still carries the old name,
\* the Areas their old names, and no filled region was made.
C15_Witness ==
    /\ last = Ran("on_apply", "rollback")
    /\ area_renames = <<>>
    /\ \E k \in 1..Len(mixes) :
          /\ mixes[k].mix_name = MIX_C
          /\ get_param(elems[mixes[k].element], PARAM_MIX_NAME) = MIX_A
    /\ areas = MixAreas
    /\ strips = {}

====
